---- MODULE Spec2Model ----
(***************************************************************************)
(* A model of the query layer (graphql/schema.ts), of the type mapping     *)
(* repository (src/unnamed/part_003), of the changelist repository         *)
(* (src/unnamed/part_001, part_002) and of the node storage                *)
(* (src/unnamed/part_004).                                                 *)
(*                                                                         *)
(* Every component is its own state machine with its own specification:    *)
(*   SpecBQ        GraphQLSchemaGenerator.breakQuery                       *)
(*   SpecResolver  GraphQLSchemaGenerator.resolverForMetatype              *)
(*   SpecSave      TypeMappingRepository.save / saveTransformations        *)
(*   SpecFind      TypeMappingRepository.findByID / findByShapeHash        *)
(*   SpecImport    TypeMappingRepository.importToDataSource /              *)
(*                 prepareForImport                                        *)
(*   SpecChangelist, SpecPopulate, SpecQuery  ChangelistRepository         *)
(*   SpecSchema    GraphQLSchemaGenerator.ForContainer                     *)
(*   SpecConcurrent  two field resolutions side by side                    *)
(*   SpecCache     the cache calls of TypeMappingRepository                *)
(*   SpecNodes, SpecBatch  NodeStorage (src/unnamed/part_004)              *)
(*   SpecIngest    two first-sight ingests of one shape side by side       *)
(*   SpecRace      a write and a find of one mapping side by side          *)
(*   SpecApprovals  approveChangelist / revokeApproval side by side        *)
(* The variables of the components a specification does not run stay at    *)
(* their idle values.                                                      *)
(***************************************************************************)
EXTENDS Integers, Sequences, FiniteSets, TLC

VARIABLES
    \* breakQuery
    bq_pc, bq_query, bq_result,
    \* resolverForMetatype: one field resolution
    res_pc,         \* where the resolution stands
    res_input,      \* the field's arguments
    res_repo,       \* the predicates of the NodeRepository query built so far
    res_edges,      \* edgeResults
    res_listed,     \* the node queries executed: their predicates and limit
    res_results,    \* what the node list call came back with
    res_promise,    \* state of the promise the resolver returned
    res_value,      \* what that promise settled with
    res_reshaped,   \* the results whose value the reshape loop was run on
    \* TypeMappingRepository.save / saveTransformations: one call
    sv,
    \* TypeMappingRepository.findByID / findByShapeHash: calls, cache and setCache tasks
    fd,
    \* TypeMappingRepository.importToDataSource: one call and its per-mapping workflows
    im,
    \* ChangelistRepository: the stored changelist, its approvals and the running call
    cl,
    \* ChangelistRepository.populateChangelist: one call and its three reads
    pop,
    \* one ChangelistRepository instance used for queries: its _rawQuery and the queries issued
    rq,
    \* GraphQLSchemaGenerator.ForContainer: one call, the ontology it reads, the schema it builds
    sg,
    \* two field resolutions of one generated schema under way at the same time
    cr,
    \* one call of TypeMappingRepository.findByID / findByShapeHash / save / delete and the cache
    cc,
    \* NodeStorage: the nodes table and the call under way or last returned
    ns,
    \* two first-sight ingests of one shape side by side: findByShapeHash, then save
    ig,
    \* a write (save with id, or delete) and a find of the same mapping side by side, and the cache
    rc,
    \* approveChangelist / revokeApproval calls on one changelist side by side
    ca

bqVars == <<bq_pc, bq_query, bq_result>>

resVars == <<res_pc, res_input, res_repo, res_edges, res_listed, res_results, res_promise, res_value, res_reshaped>>

saveVars == <<sv>>

findVars == <<fd>>

importVars == <<im>>

changelistVars == <<cl>>

populateVars == <<pop>>

queryVars == <<rq>>

schemaVars == <<sg>>

concurrentVars == <<cr>>

cacheVars == <<cc>>

nodeVars == <<ns>>

ingestVars == <<ig>>

raceVars == <<rc>>

approvalVars == <<ca>>

vars == <<bqVars, resVars, saveVars, findVars, importVars, changelistVars, populateVars, queryVars, schemaVars,
         concurrentVars, cacheVars, nodeVars, ingestVars, raceVars, approvalVars>>

\* what a step of one component leaves alone: the other components
BQFrame == UNCHANGED <<resVars, saveVars, findVars, importVars, changelistVars, populateVars, queryVars, schemaVars, concurrentVars, cacheVars, nodeVars, ingestVars, raceVars, approvalVars>>
ResFrame == UNCHANGED <<bqVars, saveVars, findVars, importVars, changelistVars, populateVars, queryVars, schemaVars, concurrentVars, cacheVars, nodeVars, ingestVars, raceVars, approvalVars>>
SaveFrame == UNCHANGED <<bqVars, resVars, findVars, importVars, changelistVars, populateVars, queryVars, schemaVars, concurrentVars, cacheVars, nodeVars, ingestVars, raceVars, approvalVars>>
FindFrame == UNCHANGED <<bqVars, resVars, saveVars, importVars, changelistVars, populateVars, queryVars, schemaVars, concurrentVars, cacheVars, nodeVars, ingestVars, raceVars, approvalVars>>
ImportFrame == UNCHANGED <<bqVars, resVars, saveVars, findVars, changelistVars, populateVars, queryVars, schemaVars, concurrentVars, cacheVars, nodeVars, ingestVars, raceVars, approvalVars>>
ChangelistFrame == UNCHANGED <<bqVars, resVars, saveVars, findVars, importVars, populateVars, queryVars, schemaVars, concurrentVars, cacheVars, nodeVars, ingestVars, raceVars, approvalVars>>
PopulateFrame == UNCHANGED <<bqVars, resVars, saveVars, findVars, importVars, changelistVars, queryVars, schemaVars, concurrentVars, cacheVars, nodeVars, ingestVars, raceVars, approvalVars>>
QueryFrame == UNCHANGED <<bqVars, resVars, saveVars, findVars, importVars, changelistVars, populateVars, schemaVars, concurrentVars, cacheVars, nodeVars, ingestVars, raceVars, approvalVars>>
SchemaFrame == UNCHANGED <<bqVars, resVars, saveVars, findVars, importVars, changelistVars, populateVars, queryVars, concurrentVars, cacheVars, nodeVars, ingestVars, raceVars, approvalVars>>
ConcurrentFrame == UNCHANGED <<bqVars, resVars, saveVars, findVars, importVars, changelistVars, populateVars, queryVars, schemaVars, cacheVars, nodeVars, ingestVars, raceVars, approvalVars>>
CacheFrame == UNCHANGED <<bqVars, resVars, saveVars, findVars, importVars, changelistVars, populateVars, queryVars, schemaVars, concurrentVars, nodeVars, ingestVars, raceVars, approvalVars>>
NodeFrame ==
    UNCHANGED <<bqVars, resVars, saveVars, findVars, importVars, changelistVars, populateVars,
                queryVars, schemaVars, concurrentVars, cacheVars, ingestVars, raceVars, approvalVars>>
IngestFrame ==
    UNCHANGED <<bqVars, resVars, saveVars, findVars, importVars, changelistVars, populateVars,
                queryVars, schemaVars, concurrentVars, cacheVars, nodeVars, raceVars, approvalVars>>
RaceFrame ==
    UNCHANGED <<bqVars, resVars, saveVars, findVars, importVars, changelistVars, populateVars,
                queryVars, schemaVars, concurrentVars, cacheVars, nodeVars, ingestVars, approvalVars>>
ApprovalFrame ==
    UNCHANGED <<bqVars, resVars, saveVars, findVars, importVars, changelistVars, populateVars,
                queryVars, schemaVars, concurrentVars, cacheVars, nodeVars, ingestVars, raceVars>>

\* JavaScript's undefined
Undefined == "undefined"

(***************************************************************************)
(* Strings are sequences of one-character strings.                         *)
(***************************************************************************)
MaxLen == 4

Alphabet == {" ", "e", "q", "n", "<", "5"}

RECURSIVE StringsUpTo(_)
StringsUpTo(n) ==
    IF n = 0 THEN {<<>>}
    ELSE LET shorter == StringsUpTo(n - 1)
         IN  shorter \cup {Append(s, c) : s \in {t \in shorter : Len(t) = n - 1}, c \in Alphabet}

\* the filter strings of the documentation, and one per remaining operator
ExampleQueries ==
    { <<"e", "q", " ", "5">>,
      <<"4", "2">>,
      <<"l", "i", "k", "e", " ", "%", "f", "o", "o", "%">>,
      <<"i", "n", " ", "1", ",", "2">>,
      <<">", " ", "1", "0">>,
      <<"l", "i", "k", "e", " ", "a", " ", " ", "b">> }

Queries == StringsUpTo(MaxLen) \cup ExampleQueries

\* ['eq', 'neq', 'like', 'in', '<', '>']
Operators ==
    { <<"e", "q">>, <<"n", "e", "q">>, <<"l", "i", "k", "e">>, <<"i", "n">>, <<"<">>, <<">">> }

EqOperator == <<"e", "q">>

\* index of the first space of s, 0 when s holds none
FirstSpace(s) ==
    IF \E i \in 1..Len(s) : s[i] = " "
    THEN CHOOSE i \in 1..Len(s) : s[i] = " " /\ \A j \in 1..(i - 1) : s[j] # " "
    ELSE 0

\* String.prototype.split(' ')
RECURSIVE Split(_)
Split(s) ==
    LET i == FirstSpace(s)
    IN  IF i = 0 THEN <<s>>
        ELSE <<SubSeq(s, 1, i - 1)>> \o Split(SubSeq(s, i + 1, Len(s)))

\* Array.prototype.join(' ')
RECURSIVE Join(_)
Join(parts) ==
    IF Len(parts) = 0 THEN <<>>
    ELSE IF Len(parts) = 1 THEN parts[1]
    ELSE parts[1] \o <<" ">> \o Join(Tail(parts))

\* breakQuery with the parts joined without the separator
breakQueryJoinEmpty(query) ==
    LET RECURSIVE Concat(_)
        Concat(ps) == IF Len(ps) = 0 THEN <<>> ELSE ps[1] \o Concat(Tail(ps))
        parts == Split(query)
    IN  IF parts[1] \notin Operators THEN <<EqOperator, query>>
        ELSE <<parts[1], Concat(Tail(parts))>>

breakQuery(query) ==
    LET parts == Split(query)
    IN  IF parts[1] \notin Operators THEN <<EqOperator, query>>
        ELSE <<parts[1], Join(Tail(parts))>>

(***************************************************************************)
(* SpecBQ: breakQuery applied to one filter string.                        *)
(***************************************************************************)
BQIdle ==
    /\ bq_pc = "idle"
    /\ bq_query = <<>>
    /\ bq_result = <<>>

BQInit ==
    /\ bq_pc = "start"
    /\ bq_query \in Queries
    /\ bq_result = <<>>

BQBreak ==
    /\ bq_pc = "start"
    /\ bq_result' = breakQuery(bq_query)
    /\ bq_pc' = "done"
    /\ UNCHANGED bq_query
    /\ BQFrame

BQNext == BQBreak

(***************************************************************************)
(* The graph the resolver queries: the ontology of the documentation       *)
(* (metatype Pump with a number key, relationship pairs from Pump to Tank) *)
(* and a few nodes and edges.                                              *)
(***************************************************************************)
ContainerID == "c1"

PumpKeys ==
    << [property_name |-> "flow_rate", sanitized |-> "flow_rate", data_type |-> "number"],
       [property_name |-> "serial no", sanitized |-> "serial_no", data_type |-> "string"] >>

Pump == [id |-> "mPump", name |-> "Pump", keys |-> PumpKeys]

Node(id, container, metatype, name, source, flow, serial) ==
    [id |-> id, container_id |-> container, metatype_id |-> metatype, metatype_name |-> name,
     data_source_id |-> source, original_data_id |-> <<"5">>, import_data_id |-> <<"5">>,
     metadata |-> [conversions |-> id], created_at |-> [time |-> id], created_by |-> "u1",
     modified_at |-> [time |-> id + 1], modified_by |-> "u2",
     properties |-> ("flow_rate" :> flow) @@ ("serial no" :> serial)]

\* the nodes table, in the order a query returns its rows; node 2 has a property
\* named _record
NodeRows ==
    << Node(1, "c1", "mPump", "Pump", <<"5">>, <<"5">>, <<"5">>),
       [Node(2, "c1", "mPump", "Pump", <<"4">>, <<"9">>, <<"q">>) EXCEPT
           !.properties = @ @@ ("_record" :> <<"z">>)],
       Node(3, "c1", "mTank", "Tank", <<"5">>, <<"5">>, <<"5">>),
       Node(4, "c2", "mPump", "Pump", <<"5">>, <<"5">>, <<"5">>) >>

Edge(origin, originName, rel, dest, destName) ==
    [origin_id |-> origin, origin_metatype_name |-> originName, relationship_name |-> rel,
     destination_id |-> dest, destination_metatype_name |-> destName]

EdgeRows ==
    << Edge(1, "Pump", <<"f">>, 3, "Tank"),
       Edge(2, "Pump", <<"f", " ", "b">>, 3, "Tank"),
       Edge(3, "Tank", <<"g">>, 1, "Pump") >>

InOperator == <<"i", "n">>

IsDigit(c) == c \in {"0", "1", "2", "3", "4", "5", "6", "7", "8", "9"}

DigitValue(c) ==
    CASE c = "0" -> 0 [] c = "1" -> 1 [] c = "2" -> 2 [] c = "3" -> 3 [] c = "4" -> 4
      [] c = "5" -> 5 [] c = "6" -> 6 [] c = "7" -> 7 [] c = "8" -> 8 [] c = "9" -> 9

IsNumeric(s) == Len(s) > 0 /\ \A i \in 1..Len(s) : IsDigit(s[i])

RECURSIVE ToNumber(_)
ToNumber(s) == IF Len(s) = 0 THEN 0 ELSE 10 * ToNumber(SubSeq(s, 1, Len(s) - 1)) + DigitValue(s[Len(s)])

\* comparison of a stored text value with a filter value under an operator
Compare(stored, op, value, data_type) ==
    CASE op = EqOperator -> stored = value
      [] op = <<"n", "e", "q">> -> stored # value
      [] op = <<"<">> -> IsNumeric(stored) /\ IsNumeric(value) /\ ToNumber(stored) < ToNumber(value)
      [] op = <<">">> -> IsNumeric(stored) /\ IsNumeric(value) /\ ToNumber(stored) > ToNumber(value)
      [] OTHER -> stored = value

\* one predicate of a node query against one row
Matches(row, p) ==
    CASE p.field = "id" ->
            IF p.op = InOperator THEN \E i \in 1..Len(p.value) : p.value[i] = row.id
            ELSE row.id = p.value
      [] p.field = "container_id" -> row.container_id = p.value
      [] p.field = "metatype_id" -> row.metatype_id = p.value
      [] p.field = "data_source_id" -> Compare(row.data_source_id, p.op, p.value, "string")
      [] p.field = "original_data_id" -> Compare(row.original_data_id, p.op, p.value, "string")
      [] p.field = "import_data_id" -> Compare(row.import_data_id, p.op, p.value, "string")
      [] p.field = "property" ->
            /\ p.name \in DOMAIN row.properties
            /\ Compare(row.properties[p.name], p.op, p.value, p.data_type)

\* the rows a node query returns: those every predicate matches (the predicates are and-ed)
ListNodes(predicates) ==
    SelectSeq(NodeRows, LAMBDA row : \A i \in 1..Len(predicates) : Matches(row, predicates[i]))

\* EdgeRepository.findByRelationship(origin, relationship, destination)
FindByRelationship(origin, relationship, destination) ==
    SelectSeq(EdgeRows, LAMBDA e :
        /\ e.origin_metatype_name = origin
        /\ e.relationship_name = relationship
        /\ e.destination_metatype_name = destination)

(***************************************************************************)
(* SpecResolver: one invocation of the function resolverForMetatype        *)
(* returns, for metatype Pump of container c1.  A step is the code between *)
(* two awaits.  An absent (or empty, hence falsy) filter string is <<>>.   *)
(***************************************************************************)
NoFilter == <<>>

\* the defaults of record_input
DefaultLimit == 10000
DefaultPage == 1

\* original_id is GraphQLJSON: the value may be a string or a number (original_id_type);
\* original_id is then the text of the value
RecordInputs ==
    {[present |-> FALSE, data_source_id |-> NoFilter, original_id |-> NoFilter, original_id_type |-> "string",
      import_id |-> NoFilter, limit |-> DefaultLimit, page |-> DefaultPage]}
    \cup { r \in [present : {TRUE},
                  data_source_id : {NoFilter, <<"5">>, <<"n", "e", "q", " ", "5">>},
                  original_id : {NoFilter, <<"5">>},
                  original_id_type : {"string", "number"},
                  import_id : {NoFilter, <<"e", "q", " ", "5">>},
                  limit : {DefaultLimit, 1},
                  page : {DefaultPage, 2}] :
              r.original_id = NoFilter => r.original_id_type = "string" }

\* the relationship key and the first key of its first destination object
RelationshipInputs ==
    {[present |-> FALSE, relationship |-> <<>>, destination |-> ""]}
    \cup [present : {TRUE}, relationship : {<<"f">>, <<"f", "_", "b">>, <<"g">>}, destination : {"Tank", "Pump"}]

\* the remaining arguments, in the order of Object.keys(input)
PropertyInputs ==
    { <<>>,
      <<[key |-> "flow_rate", value |-> <<">", " ", "4">>]>>,
      <<[key |-> "serial_no", value |-> <<"5">>]>>,
      <<[key |-> "flow_rate", value |-> <<"5">>], [key |-> "serial_no", value |-> <<"n", "e", "q", " ", "5">>]>> }

ResolverInputs == [_record : RecordInputs, _relationship : RelationshipInputs, properties : PropertyInputs]

\* services/utilities stringToValidPropertyName, on the names of this ontology
Sanitize(name) == IF name = "serial no" THEN "serial_no" ELSE name

Predicate(field, op, value) == [field |-> field, op |-> op, value |-> value]

\* a query scoped to the container only
ScopePredicatesContainerOnly(containerID, metatype) ==
    << Predicate("container_id", EqOperator, containerID) >>

\* repo.where().containerID('eq', containerID).and().metatypeID('eq', metatype.id)
ScopePredicates(containerID, metatype) ==
    << Predicate("container_id", EqOperator, containerID),
       Predicate("metatype_id", EqOperator, metatype.id) >>

FilterPredicate(field, filter) ==
    IF filter = NoFilter THEN <<>>
    ELSE LET query == breakQuery(filter) IN <<Predicate(field, query[1], query[2])>>

\* breakQuery is handed a value that has no split method: query.split(' ') throws a
\* TypeError
BreakQueryThrows(record) ==
    record.present /\ record.original_id # NoFilter /\ record.original_id_type # "string"

\* the _record branch
RecordPredicates(record) ==
    IF ~record.present THEN <<>>
    ELSE FilterPredicate("data_source_id", record.data_source_id)
         \o FilterPredicate("original_data_id", record.original_id)
         \o FilterPredicate("import_data_id", record.import_id)

\* String.prototype.replace('_', ' '): the first underscore only
ReplaceUnderscore(s) ==
    IF \E i \in 1..Len(s) : s[i] = "_"
    THEN LET i == CHOOSE k \in 1..Len(s) : s[k] = "_" /\ \A j \in 1..(k - 1) : s[j] # "_"
         IN  [s EXCEPT ![i] = " "]
    ELSE s

\* the _relationship branch without its else: no predicate when no edge matches
RelationshipPredicatesNoElse(edges) ==
    IF Len(edges) > 0
    THEN <<Predicate("id", InOperator, [i \in 1..Len(edges) |-> edges[i].origin_id])>>
    ELSE <<>>

\* the _relationship branch, once the edges are there
RelationshipPredicates(edges) ==
    IF Len(edges) > 0
    THEN <<Predicate("id", InOperator, [i \in 1..Len(edges) |-> edges[i].origin_id])>>
    ELSE <<Predicate("id", EqOperator, 0)>>

\* a property map that keeps the argument's key as the property's name
PropertyMapSanitizedName(metatype, key) ==
    LET i == CHOOSE k \in 1..Len(metatype.keys) : Sanitize(metatype.keys[k].property_name) = key
    IN  [name |-> key, data_type |-> metatype.keys[i].data_type]

\* propertyMap[key]
PropertyMap(metatype, key) ==
    LET i == CHOOSE k \in 1..Len(metatype.keys) : Sanitize(metatype.keys[k].property_name) = key
    IN  [name |-> metatype.keys[i].property_name, data_type |-> metatype.keys[i].data_type]

\* Object.keys(input).forEach: one property predicate per remaining argument
RECURSIVE PropertyPredicates(_, _)
PropertyPredicates(metatype, properties) ==
    IF Len(properties) = 0 THEN <<>>
    ELSE LET arg == properties[1]
             query == breakQuery(arg.value)
             entry == PropertyMap(metatype, arg.key)
         IN  <<[field |-> "property", name |-> entry.name, op |-> query[1], value |-> query[2],
                data_type |-> entry.data_type]>>
             \o PropertyPredicates(metatype, Tail(properties))

\* Date.prototype.toISOString
toISOString(date) == [iso |-> date.time]

\* properties[stringToValidPropertyName(key)] = node.properties[key]
ReshapedProperties(node) ==
    [k \in {Sanitize(n) : n \in DOMAIN node.properties} |->
        [kind |-> "property",
         value |-> node.properties[CHOOSE n \in DOMAIN node.properties : Sanitize(n) = k]]]

\* the _record substructure of a row
RecordOf(node) ==
    [kind |-> "record",
     id |-> node.id, data_source_id |-> node.data_source_id,
     original_id |-> node.original_data_id, import_id |-> node.import_data_id,
     metatype_id |-> node.metatype_id, metatype_name |-> node.metatype_name,
     metadata |-> node.metadata,
     created_at |-> toISOString(node.created_at), created_by |-> node.created_by,
     modified_at |-> toISOString(node.modified_at), modified_by |-> node.modified_by]

\* a row flattened with the properties spread after _record: {_record: {...}, ...properties}
ReshapeRecordFirst(node) ==
    [k \in DOMAIN ReshapedProperties(node) \cup {"_record"} |->
        IF k \in DOMAIN ReshapedProperties(node) THEN ReshapedProperties(node)[k] ELSE RecordOf(node)]

\* results.value.forEach: a row flattened, with its provenance under _record:
\* {...properties, _record: {...}}
Reshape(node) ==
    [k \in DOMAIN ReshapedProperties(node) \cup {"_record"} |->
        IF k = "_record" THEN RecordOf(node) ELSE ReshapedProperties(node)[k]]

ReshapeAll(rows) == [i \in 1..Len(rows) |-> Reshape(rows[i])]

NoValue == [kind |-> "undefined"]
ListValue(rows) == [kind |-> "list", rows |-> rows]
ErrorValue(e) == [kind |-> "error", error |-> e]

\* the hard cap of the list call
ListLimit == 10000

ResIdle ==
    /\ res_pc = "idle"
    /\ res_input = [_record |-> [present |-> FALSE], _relationship |-> [present |-> FALSE], properties |-> <<>>]
    /\ res_repo = <<>>
    /\ res_edges = NoValue
    /\ res_listed = <<>>
    /\ res_results = NoValue
    /\ res_promise = "pending"
    /\ res_value = NoValue
    /\ res_reshaped = <<>>

ResInit ==
    /\ res_pc = "start"
    /\ res_input \in ResolverInputs
    /\ res_repo = <<>>
    /\ res_edges = NoValue
    /\ res_listed = <<>>
    /\ res_results = NoValue
    /\ res_promise = "pending"
    /\ res_value = NoValue
    /\ res_reshaped = <<>>

\* repo.list(true, {limit: 10000}) is called with the predicates built
ResCallList(predicates) ==
    /\ res_repo' = predicates
    /\ res_listed' = Append(res_listed, [predicates |-> predicates, limit |-> ListLimit])
    /\ res_pc' = "list"

\* from the call to the first await: the edge lookup, or else the node list
ResBegin ==
    /\ res_pc = "start"
    /\ ~BreakQueryThrows(res_input._record)
    /\ LET repo == ScopePredicates(ContainerID, Pump) \o RecordPredicates(res_input._record)
       IN  IF res_input._relationship.present
           THEN /\ res_repo' = repo
                /\ res_pc' = "edges"
                /\ UNCHANGED res_listed
           ELSE ResCallList(repo \o PropertyPredicates(Pump, res_input.properties))
    /\ UNCHANGED <<res_input, res_edges, res_results, res_promise, res_value, res_reshaped>>
    /\ ResFrame

\* the _record branch throws on the original_id: the async function's promise rejects
\* before any repository call
ResBreakQueryThrows ==
    /\ res_pc = "start"
    /\ BreakQueryThrows(res_input._record)
    /\ res_repo' = ScopePredicates(ContainerID, Pump)
                     \o FilterPredicate("data_source_id", res_input._record.data_source_id)
    /\ res_promise' = "rejected"
    /\ res_value' = ErrorValue("TypeError")
    /\ res_pc' = "done"
    /\ UNCHANGED <<res_input, res_edges, res_listed, res_results, res_reshaped>>
    /\ ResFrame

\* the edge lookup returns a success Result
ResEdgesFound ==
    /\ res_pc = "edges"
    /\ LET edges == FindByRelationship(Pump.name, ReplaceUnderscore(res_input._relationship.relationship),
                                       res_input._relationship.destination)
       IN  /\ res_edges' = ListValue(edges)
           /\ ResCallList(res_repo \o RelationshipPredicates(edges)
                             \o PropertyPredicates(Pump, res_input.properties))
    /\ UNCHANGED <<res_input, res_results, res_promise, res_value, res_reshaped>>
    /\ ResFrame

\* the edge lookup returns a failure Result (no value): edgeResults.value.length throws,
\* and the async function's promise rejects
ResEdgesError ==
    /\ res_pc = "edges"
    /\ res_edges' = ErrorValue("edge lookup failed")
    /\ res_promise' = "rejected"
    /\ res_value' = ErrorValue("TypeError")
    /\ res_pc' = "done"
    /\ UNCHANGED <<res_input, res_repo, res_listed, res_results, res_reshaped>>
    /\ ResFrame

\* the edge lookup's promise rejects: the await throws
ResEdgesReject ==
    /\ res_pc = "edges"
    /\ res_edges' = ErrorValue("edge lookup rejected")
    /\ res_promise' = "rejected"
    /\ res_value' = ErrorValue("edge lookup rejected")
    /\ res_pc' = "done"
    /\ UNCHANGED <<res_input, res_repo, res_listed, res_results, res_reshaped>>
    /\ ResFrame

\* resolve(v) of the wrapping promise: the first call settles it, later calls do nothing
Resolve(promise, v) == IF promise.state = "pending" THEN [state |-> "fulfilled", value |-> v] ELSE promise

\* .then with a success Result: the rows are reshaped and resolved
ResListRows ==
    /\ res_pc = "list"
    /\ LET rows == ListNodes(res_repo)
           settled == Resolve([state |-> res_promise, value |-> res_value], ListValue(ReshapeAll(rows)))
       IN  /\ res_results' = ListValue(rows)
           /\ res_reshaped' = Append(res_reshaped, "success")
           /\ res_promise' = settled.state
           /\ res_value' = settled.value
    /\ res_pc' = "done"
    /\ UNCHANGED <<res_input, res_repo, res_edges, res_listed>>
    /\ ResFrame

\* .then with a failure Result: resolve([]), and with no return the reshape loop runs on
\* results.value; that throws, .catch calls resolve(e), which comes too late
ResListError ==
    /\ res_pc = "list"
    /\ LET first == Resolve([state |-> res_promise, value |-> res_value], ListValue(<<>>))
           second == Resolve(first, ErrorValue("TypeError"))
       IN  /\ res_results' = ErrorValue("list failed")
           /\ res_reshaped' = Append(res_reshaped, "failure")
           /\ res_promise' = second.state
           /\ res_value' = second.value
    /\ res_pc' = "done"
    /\ UNCHANGED <<res_input, res_repo, res_edges, res_listed>>
    /\ ResFrame

\* the list promise rejects: .catch resolves the field with the error
ResListReject ==
    /\ res_pc = "list"
    /\ LET settled == Resolve([state |-> res_promise, value |-> res_value], ErrorValue("list rejected"))
       IN  /\ res_promise' = settled.state
           /\ res_value' = settled.value
    /\ res_results' = ErrorValue("list rejected")
    /\ res_pc' = "done"
    /\ UNCHANGED <<res_input, res_repo, res_edges, res_listed, res_reshaped>>
    /\ ResFrame

ResNext ==
    \/ ResBegin
    \/ ResBreakQueryThrows
    \/ ResEdgesFound
    \/ ResEdgesError
    \/ ResEdgesReject
    \/ ResListRows
    \/ ResListError
    \/ ResListReject

(***************************************************************************)
(* SpecSave: one call of TypeMappingRepository.save or of                  *)
(* saveTransformations.  sv is the state of the call and of the database:  *)
(*   pc, call, path          where the call stands; 'update' or 'create'   *)
(*   t, passed               the mapping (id 0: no id), and as it was      *)
(*                           passed in                                     *)
(*   saveTransformations     the argument of save                          *)
(*   given                   the caller passed a transaction               *)
(*   internal, stInternal    internalTransaction of save and of            *)
(*                           saveTransformations                           *)
(*   txn                     none | open | committed | rolledback          *)
(*   pending, db             the writes of the open transaction; the       *)
(*                           committed writes                              *)
(*   log                     the mapper calls made and the failed          *)
(*                           validations of a transformation, in order     *)
(*   update, create, returned  transformationsUpdate, transformationsCreate*)
(*                           and returnTransformations                     *)
(*   result, stResult        what save / saveTransformations returned      *)
(* A step is the code between two awaited mapper calls; a mapper call      *)
(* succeeds or fails.                                                      *)
(***************************************************************************)
MaxTransformations == 2

\* ids of the transformations the mapping was loaded with
ExistingIDs == 1..MaxTransformations

\* first id the database hands out to a created row
FirstNewID == 100

NewMappingID == 7

TransformationChoices ==
    [id : {0} \cup ExistingIDs, valid : BOOLEAN]

RECURSIVE TransformationLists(_)
TransformationLists(n) ==
    IF n = 0 THEN {<<>>}
    ELSE LET shorter == TransformationLists(n - 1)
         IN  shorter \cup
             {Append(l, x) : l \in {k \in shorter : Len(k) = n - 1},
                             x \in TransformationChoices}

\* the ids a mapping holds are those of distinct rows
DistinctIDs(l) ==
    \A i, j \in 1..Len(l) : (i # j /\ l[i].id # 0) => l[i].id # l[j].id

\* removedTransformations: rows taken out of the mapping, none of them still in it
RemovedChoices == { <<>>, <<[id |-> 8, valid |-> TRUE]>>, <<[id |-> 8, valid |-> TRUE], [id |-> 9, valid |-> TRUE]>> }

Mappings ==
    { [id |-> i, valid |-> v, hasTransformations |-> h, transformations |-> l, removed |-> r] :
        i \in {0, 1}, v \in BOOLEAN, h \in BOOLEAN,
        l \in {k \in TransformationLists(MaxTransformations) : DistinctIDs(k)},
        r \in RemovedChoices }

SaveStart(call, t, flag, given) ==
    [pc |-> call, call |-> call, path |-> "none", t |-> t, passed |-> t, saveTransformations |-> flag,
     given |-> given, internal |-> FALSE, stInternal |-> FALSE,
     txn |-> IF given THEN "open" ELSE "none", pending |-> {}, db |-> {}, log |-> <<>>,
     update |-> <<>>, create |-> <<>>, returned |-> <<>>, early |-> FALSE,
     nextID |-> FirstNewID, result |-> "none", stResult |-> "none"]

SaveIdle == sv = [pc |-> "idle"]

SaveInit ==
    \/ \E t \in Mappings, flag \in BOOLEAN, given \in BOOLEAN :
          /\ t.hasTransformations \/ t.transformations = <<>>
          /\ sv = SaveStart("save", t, flag, given)
    \/ \E t \in Mappings, given \in BOOLEAN :
          /\ t.hasTransformations \/ t.transformations = <<>>
          /\ t.id # 0 /\ t.valid
          /\ sv = SaveStart("saveTransformations", t, TRUE, given)

Write(op, id) == [op |-> op, id |-> id]

IDs(l) == [i \in 1..Len(l) |-> l[i].id]

Logged(s, op, ok, ids) == [s EXCEPT !.log = Append(@, [op |-> op, ok |-> ok, ids |-> ids])]

\* this.#mapper.rollbackTransaction(transaction)
rollbackTransaction(s) ==
    [Logged(s, "rollbackTransaction", TRUE, <<>>) EXCEPT !.txn = "rolledback", !.pending = {}]

\* this.#mapper.completeTransaction(transaction)
completeTransaction(s, ok) ==
    IF ok
    THEN [Logged(s, "completeTransaction", TRUE, <<>>) EXCEPT
             !.txn = "committed", !.db = @ \cup s.pending, !.pending = {}]
    ELSE Logged(s, "completeTransaction", FALSE, <<>>)

\* this.#mapper.startTransaction()
startTransaction(s, ok) ==
    IF ok THEN [Logged(s, "startTransaction", TRUE, <<>>) EXCEPT !.txn = "open"]
    ELSE Logged(s, "startTransaction", FALSE, <<>>)

RollbackIf(condition, s) == IF condition THEN rollbackTransaction(s) ELSE s

SaveReturn(s, r) == [s EXCEPT !.result = r, !.pc = "done"]

\* save, from its call to startTransaction or to the mapping write
SaveValidate ==
    /\ sv.pc = "save"
    /\ sv' = IF ~sv.t.valid THEN SaveReturn(sv, "failure")
             ELSE IF ~sv.given THEN [sv EXCEPT !.pc = "save_start"]
             ELSE [sv EXCEPT !.pc = "save_write"]
    /\ SaveFrame

SaveStartTransaction ==
    /\ sv.pc = "save_start"
    /\ \E ok \in BOOLEAN :
          sv' = IF ok THEN [startTransaction(sv, TRUE) EXCEPT !.internal = TRUE, !.pc = "save_write"]
                ELSE SaveReturn(startTransaction(sv, FALSE), "failure")
    /\ SaveFrame

\* after the mapping write of the update path failed
SaveUpdateFailed(s) == SaveReturn(rollbackTransaction(s), "failure")

\* after the mapping write of the create path failed
SaveCreateFailed(s) == SaveReturn(RollbackIf(s.internal, s), "failure")

\* where save goes when the mapping is written
SaveMappingWritten(s) ==
    IF s.saveTransformations THEN [s EXCEPT !.pc = "saveTransformations"]
    ELSE IF s.path = "update" \/ s.internal THEN [s EXCEPT !.pc = "save_commit"]
    ELSE SaveReturn(s, "success")

\* Update (the mapping has an id) or CreateOrUpdate
SaveWriteMapping ==
    /\ sv.pc = "save_write"
    /\ \E ok \in BOOLEAN :
          IF sv.t.id # 0
          THEN LET s == [Logged(sv, "Update", ok, <<sv.t.id>>) EXCEPT !.path = "update"]
               IN  sv' = IF ~ok THEN SaveUpdateFailed(s)
                         ELSE SaveMappingWritten(
                                 [s EXCEPT !.pending = @ \cup {Write("mapping", s.t.id)}])
          ELSE LET s == [Logged(sv, "CreateOrUpdate", ok, <<>>) EXCEPT !.path = "create"]
               IN  sv' = IF ~ok THEN SaveCreateFailed(s)
                         ELSE SaveMappingWritten(
                                 [s EXCEPT !.t.id = NewMappingID,
                                           !.pending = @ \cup {Write("mapping", NewMappingID)}])
    /\ SaveFrame

\* saveTransformations returns r: to its caller, or back into save
STReturn(s, r) ==
    LET q == [s EXCEPT !.stResult = r]
    IN  IF q.call = "saveTransformations" THEN SaveReturn(q, r)
        ELSE IF r = "failure"
             THEN IF q.path = "update" THEN SaveReturn(RollbackIf(q.internal, q), "failure")
                  ELSE SaveReturn(rollbackTransaction(q), "failure")
             ELSE IF q.path = "update" \/ q.internal THEN [q EXCEPT !.pc = "save_commit"]
                  ELSE SaveReturn(q, "success")

\* t.replaceTransformations(returnTransformations)
replaceTransformations(t, returned) ==
    [t EXCEPT !.transformations = returned, !.hasTransformations = TRUE]

\* the end of saveTransformations when the transaction is not its own
STFinish(s) ==
    IF s.stInternal THEN [s EXCEPT !.pc = "st_commit"]
    ELSE STReturn([s EXCEPT !.t = replaceTransformations(s.t, s.returned)], "success")

\* after the bulk update: the bulk create, if anything is to be created
STAfterUpdate(s) == IF Len(s.create) > 0 THEN [s EXCEPT !.pc = "st_create"] ELSE STFinish(s)

\* after the split: the bulk update, if anything is to be updated
STAfterSplit(s) == IF Len(s.update) > 0 THEN [s EXCEPT !.pc = "st_update"] ELSE STAfterUpdate(s)

\* after startTransaction: the bulk delete, if anything was removed
STAfterStart(s) == IF Len(s.t.removed) > 0 THEN [s EXCEPT !.pc = "st_delete"] ELSE [s EXCEPT !.pc = "st_split"]

\* saveTransformations, from its call to startTransaction or to the first bulk call
STEnter ==
    /\ sv.pc = "saveTransformations"
    /\ sv' = IF sv.call = "saveTransformations" /\ ~sv.given
             THEN [sv EXCEPT !.pc = "st_start"]
             ELSE STAfterStart(sv)
    /\ SaveFrame

STStartTransaction ==
    /\ sv.pc = "st_start"
    /\ \E ok \in BOOLEAN :
          sv' = IF ok THEN STAfterStart([startTransaction(sv, TRUE) EXCEPT !.stInternal = TRUE])
                ELSE STReturn(startTransaction(sv, FALSE), "failure")
    /\ SaveFrame

STBulkDelete ==
    /\ sv.pc = "st_delete"
    /\ \E ok \in BOOLEAN :
          LET s == Logged(sv, "BulkDelete", ok, IDs(sv.t.removed))
          IN  sv' = IF ~ok THEN STReturn(RollbackIf(s.stInternal, s), "failure")
                    ELSE [s EXCEPT !.pc = "st_split",
                                   !.pending = @ \cup {Write("delete", s.t.removed[i].id) : i \in 1..Len(s.t.removed)}]
    /\ SaveFrame

\* index of the first transformation that does not pass validation, 0 if all pass
FirstInvalid(l) ==
    IF \E i \in 1..Len(l) : ~l[i].valid
    THEN CHOOSE i \in 1..Len(l) : ~l[i].valid /\ \A j \in 1..(i - 1) : l[j].valid
    ELSE 0

\* the split that pushes every transformation to the update list
TransformationsUpdateAll(l) == l

\* transformation.id ? transformationsUpdate.push(...) : ...
TransformationsUpdate(l) == SelectSeq(l, LAMBDA x : x.id # 0)

\* ... : transformationsCreate.push(transformation)
TransformationsCreate(l) == SelectSeq(l, LAMBDA x : x.id = 0)

\* the early return for an empty transformation list, then the validation loop and the split
STSplit ==
    /\ sv.pc = "st_split"
    /\ LET l == sv.t.transformations
           bad == FirstInvalid(l)
       IN  sv' = IF sv.t.hasTransformations /\ Len(l) = 0
                 THEN IF sv.stInternal THEN [sv EXCEPT !.pc = "st_commit", !.early = TRUE]
                      ELSE STReturn(sv, "success")
                 ELSE IF bad # 0
                 THEN LET seen == SubSeq(l, 1, bad - 1)
                          s == [Logged(sv, "validationErrors", FALSE, <<l[bad].id>>) EXCEPT
                                   !.update = TransformationsUpdate(seen),
                                   !.create = TransformationsCreate(seen)]
                      IN  STReturn(RollbackIf(s.stInternal, s), "failure")
                 ELSE STAfterSplit([sv EXCEPT !.update = TransformationsUpdate(l),
                                              !.create = TransformationsCreate(l)])
    /\ SaveFrame

STBulkUpdate ==
    /\ sv.pc = "st_update"
    /\ \E ok \in BOOLEAN :
          LET s == Logged(sv, "BulkUpdate", ok, IDs(sv.update))
          IN  sv' = IF ~ok THEN STReturn(RollbackIf(s.stInternal, s), "failure")
                    ELSE STAfterUpdate(
                            [s EXCEPT !.returned = @ \o s.update,
                                      !.pending = @ \cup {Write("update", s.update[i].id) : i \in 1..Len(s.update)}])
    /\ SaveFrame

\* the rows BulkCreate returns: the transformations with the ids the database gave them
CreatedRows(l, nextID) == [i \in 1..Len(l) |-> [l[i] EXCEPT !.id = nextID + i - 1]]

STBulkCreate ==
    /\ sv.pc = "st_create"
    /\ \E ok \in BOOLEAN :
          LET s == Logged(sv, "BulkCreate", ok, IDs(sv.create))
              rows == CreatedRows(s.create, s.nextID)
          IN  sv' = IF ~ok THEN STReturn(RollbackIf(s.stInternal, s), "failure")
                    ELSE STFinish(
                            [s EXCEPT !.returned = @ \o rows,
                                      !.nextID = @ + Len(rows),
                                      !.pending = @ \cup {Write("create", rows[i].id) : i \in 1..Len(rows)}])
    /\ SaveFrame

\* the commit of saveTransformations' own transaction: a failed commit is passed on as it is
STCommit ==
    /\ sv.pc = "st_commit"
    /\ \E ok \in BOOLEAN :
          LET s == completeTransaction(sv, ok)
          IN  sv' = IF ~ok THEN STReturn(s, "failure")
                    ELSE IF s.early THEN STReturn(s, "success")
                    ELSE STReturn([s EXCEPT !.t = replaceTransformations(s.t, s.returned)], "success")
    /\ SaveFrame

\* the commit of save
SaveCommit ==
    /\ sv.pc = "save_commit"
    /\ \E ok \in BOOLEAN :
          LET s == completeTransaction(sv, ok)
          IN  sv' = IF ok THEN SaveReturn(s, "success")
                    ELSE IF s.path = "update" THEN SaveReturn(RollbackIf(s.internal, s), "failure")
                    ELSE SaveReturn(rollbackTransaction(s), "failure")
    /\ SaveFrame

SaveNext ==
    \/ SaveValidate
    \/ SaveStartTransaction
    \/ SaveWriteMapping
    \/ STEnter
    \/ STStartTransaction
    \/ STBulkDelete
    \/ STSplit
    \/ STBulkUpdate
    \/ STBulkCreate
    \/ STCommit
    \/ SaveCommit

(***************************************************************************)
(* SpecFind: calls of findByID and findByShapeHash for the one stored      *)
(* mapping, one after the other, with the setCache tasks they start and    *)
(* do not await.  fd is                                                    *)
(*   pc, call, load      where the running call stands, which it is, its   *)
(*                       loadTransformations argument                      *)
(*   calls               the calls started so far                          *)
(*   cache               the two cache entries of the mapping              *)
(*   retrieved           the Result of the mapper's retrieve               *)
(*   tasks               the setCache calls under way                      *)
(*   sets                the Cache.set calls made                          *)
(*   result              what the last call returned                       *)
(***************************************************************************)
MaxFindCalls == 2

\* the stored mapping and its transformations
StoredMappingID == 1
StoredTransformations == <<1, 2>>

NoEntry == [present |-> FALSE, value |-> [id |-> 0, transformations |-> <<>>]]

FindCalls == {"findByID", "findByShapeHash"}

FindStart(call, load, calls, cache, tasks, sets) ==
    [pc |-> "get", call |-> call, load |-> load, calls |-> calls, cache |-> cache,
     retrieved |-> [isError |-> FALSE, value |-> NoEntry.value, listed |-> "no"],
     tasks |-> tasks, sets |-> sets,
     result |-> [isError |-> FALSE, value |-> NoEntry.value, cached |-> FALSE]]

FindIdle == fd = [pc |-> "idle"]

FindInit ==
    \E call \in FindCalls, load \in BOOLEAN :
        fd = FindStart(call, load, 1, [byID |-> NoEntry, byShape |-> NoEntry], <<>>, <<>>)

\* the cache key a call reads
CacheKey(call) == IF call = "findByID" THEN "byID" ELSE "byShape"

\* getCached / getCachedByShapeHash: a hit is returned at once
FindGetCached ==
    /\ fd.pc = "get"
    /\ LET entry == fd.cache[CacheKey(fd.call)]
       IN  \E hit \in (IF entry.present THEN BOOLEAN ELSE {FALSE}) :
              fd' = IF hit
                    THEN [fd EXCEPT !.pc = "done",
                                    !.result = [isError |-> FALSE, value |-> entry.value, cached |-> TRUE]]
                    ELSE [fd EXCEPT !.pc = "retrieve"]
    /\ FindFrame

\* Retrieve / RetrieveByShapeHash; without loadTransformations, or on an error, it is returned
FindRetrieve ==
    /\ fd.pc = "retrieve"
    /\ \E ok \in BOOLEAN :
          LET retrieved == [isError |-> ~ok,
                            value |-> [id |-> IF ok THEN StoredMappingID ELSE 0, transformations |-> <<>>],
                            listed |-> "no"]
          IN  fd' = IF ~retrieved.isError /\ fd.load
                    THEN [fd EXCEPT !.pc = "list", !.retrieved = retrieved]
                    ELSE [fd EXCEPT !.pc = "done", !.retrieved = retrieved,
                                    !.result = [isError |-> retrieved.isError, value |-> retrieved.value,
                                                cached |-> FALSE]]
    /\ FindFrame

\* whether setCache is called once ListForTypeMapping has returned: always
CallsSetCache(transformationsLoaded) == TRUE

\* ListForTypeMapping, addTransformation if it succeeded, void setCache, return
FindListTransformations ==
    /\ fd.pc = "list"
    /\ \E ok \in BOOLEAN :
          LET value == [fd.retrieved.value EXCEPT
                           !.transformations = IF ok THEN StoredTransformations ELSE @]
              task == [step |-> "id", value |-> value, loaded |-> ok, load |-> fd.load]
          IN  fd' = [fd EXCEPT !.pc = "done",
                               !.retrieved = [@ EXCEPT !.value = value,
                                                       !.listed = IF ok THEN "loaded" ELSE "failed"],
                               !.tasks = IF CallsSetCache(ok) THEN Append(@, task) ELSE @,
                               !.result = [isError |-> FALSE, value |-> value, cached |-> FALSE]]
    /\ FindFrame

RemoveAt(l, i) == SubSeq(l, 1, i - 1) \o SubSeq(l, i + 1, Len(l))

\* setCache: Cache.set under the key of the id, then under the key of data source and
\* shape hash; a failed set is logged and nothing else
FindSetCache ==
    /\ fd.pc # "idle"
    /\ \E i \in 1..Len(fd.tasks), ok \in BOOLEAN :
          LET task == fd.tasks[i]
              key == IF task.step = "id" THEN "byID" ELSE "byShape"
              set == [key |-> key, value |-> task.value, loaded |-> task.loaded, load |-> task.load, ok |-> ok]
          IN  fd' = [fd EXCEPT
                        !.cache[key] = IF ok THEN [present |-> TRUE, value |-> task.value] ELSE @,
                        !.sets = Append(@, set),
                        !.tasks = IF task.step = "id" THEN [@ EXCEPT ![i].step = "shape"]
                                  ELSE RemoveAt(@, i)]
    /\ FindFrame

\* the next call
FindCallAgain ==
    /\ fd.pc = "done"
    /\ fd.calls < MaxFindCalls
    /\ \E call \in FindCalls, load \in BOOLEAN :
          fd' = [FindStart(call, load, fd.calls + 1, fd.cache, fd.tasks, fd.sets) EXCEPT
                    !.result = fd.result]
    /\ FindFrame

FindNext ==
    \/ FindGetCached
    \/ FindRetrieve
    \/ FindListTransformations
    \/ FindSetCache
    \/ FindCallAgain

(***************************************************************************)
(* SpecImport: one call of importToDataSource.  Every mapping has its own  *)
(* workflow (the async executor of its promise); the workflows interleave  *)
(* at their awaits.  im is                                                 *)
(*   pc            retrieve | running | returned                           *)
(*   original      originalMappings, as the caller passed them             *)
(*   mappings      the copies the workflows work on; mappings[index] and   *)
(*                 the loop variable mapping are the same object, since    *)
(*                 prepareForImport returns the object it was given        *)
(*   wf            per mapping: pc, the separateContainer argument, the    *)
(*                 mapping as handed to save, how save ended               *)
(*   results       what each promise resolved with                         *)
(*   finished      the indices in the order their promises resolved        *)
(*   returned      what importToDataSource returned                        *)
(***************************************************************************)
MaxMappings == 2

\* the target data source and its container
TargetSource == [id |-> "ds2", container_id |-> "c2"]

\* the names of the i-th mapping of a call: its shape hash, its id and that of its
\* transformation before the import, and the ids save assigns
ShapeHashes == <<"h1", "h2", "h3", "h4">>

MappingIDs == <<"m1", "m2", "m3", "m4">>

TransformationIDs == <<"t1", "t2", "t3", "t4">>

NewMappingIDs == <<"n1", "n2", "n3", "n4">>

NewTransformationIDs == <<"nt1", "nt2", "nt3", "nt4">>

Key(id) == [metatype_key_id |-> id, metatype_relationship_key_id |-> Undefined, metatype_key_name |-> Undefined]

Transformation(i, container) ==
    [id |-> TransformationIDs[i], type_mapping_id |-> MappingIDs[i], container_id |-> container,
     data_source_id |-> "ds1", shape_hash |-> ShapeHashes[i],
     metatype_id |-> "mPump", metatype_name |-> Undefined, metatype_relationship_pair_id |-> Undefined,
     keys |-> <<Key("k1")>>,
     created_at |-> "t0", created_by |-> "u0", modified_at |-> "t0", modified_by |-> "u0"]

\* a stored mapping of data source ds1, the i-th of the call
StoredMapping(i, container, transformations) ==
    [id |-> MappingIDs[i], container_id |-> container, data_source_id |-> "ds1",
     shape_hash |-> ShapeHashes[i], active |-> TRUE,
     created_at |-> "t0", created_by |-> "u0", modified_at |-> "t0", modified_by |-> "u0",
     transformations |-> transformations]

\* the mappings the i-th argument is drawn from: of the target's container or of another,
\* with one transformation or none
MappingChoices(i) ==
    UNION { {StoredMapping(i, c, <<>>), StoredMapping(i, c, <<Transformation(i, c)>>)} : c \in {"c1", "c2"} }

RECURSIVE MappingLists(_)
MappingLists(n) ==
    IF n = 0 THEN {<<>>}
    ELSE LET shorter == MappingLists(n - 1)
         IN  shorter \cup {Append(l, x) : l \in {k \in shorter : Len(k) = n - 1}, x \in MappingChoices(n)}

\* TypeTransformationRepository.populateKeys: the names that go with the ids
populateKeys(t) ==
    [t EXCEPT !.metatype_name = IF t.metatype_id # Undefined THEN "Pump" ELSE @,
              !.keys = [j \in 1..Len(t.keys) |->
                           [t.keys[j] EXCEPT !.metatype_key_name =
                               IF t.keys[j].metatype_key_id # Undefined THEN "flow_rate" ELSE @]]]

\* TypeTransformationRepository.backfillIDs: ids looked up by name in the target container
backfillIDs(t) ==
    [t EXCEPT !.metatype_id = IF @ = Undefined /\ t.metatype_name # Undefined THEN "mPump2" ELSE @,
              !.keys = [j \in 1..Len(t.keys) |->
                           [t.keys[j] EXCEPT !.metatype_key_id =
                               IF @ = Undefined /\ t.keys[j].metatype_key_name # Undefined THEN "k1_2" ELSE @]]]

\* the loop body of prepareForImport for one transformation
prepareTransformation(t, separateContainer) ==
    LET p == IF separateContainer
             THEN LET q == populateKeys(t)
                  IN  [q EXCEPT !.keys = [j \in 1..Len(q.keys) |->
                                             [q.keys[j] EXCEPT !.metatype_relationship_key_id = Undefined,
                                                               !.metatype_key_id = Undefined]],
                                !.metatype_id = Undefined,
                                !.metatype_relationship_pair_id = Undefined]
             ELSE t
    IN  [p EXCEPT !.type_mapping_id = Undefined, !.id = Undefined, !.container_id = Undefined,
                  !.data_source_id = Undefined, !.shape_hash = Undefined,
                  !.created_by = Undefined, !.created_at = Undefined,
                  !.modified_by = Undefined, !.modified_at = Undefined]

\* prepareForImport that keeps the audit fields of the mapping
prepareForImportKeepingAudit(typeMapping, separateContainer) ==
    [typeMapping EXCEPT
        !.transformations = [i \in 1..Len(@) |-> prepareTransformation(@[i], separateContainer)],
        !.container_id = IF separateContainer THEN Undefined ELSE @,
        !.id = Undefined,
        !.data_source_id = Undefined]

prepareForImport(typeMapping, separateContainer) ==
    [typeMapping EXCEPT
        !.transformations = [i \in 1..Len(@) |-> prepareTransformation(@[i], separateContainer)],
        !.container_id = IF separateContainer THEN Undefined ELSE @,
        !.id = Undefined,
        !.data_source_id = Undefined,
        !.created_at = Undefined,
        !.created_by = Undefined,
        !.modified_at = Undefined,
        !.modified_by = Undefined]

\* a retargeting that leaves the container of the mapping as prepareForImport left it
RetargetDataSourceOnly(mapping, target) ==
    [mapping EXCEPT !.data_source_id = target.id, !.active = FALSE]

\* the three assignments after prepareForImport
Retarget(mapping, target) ==
    [mapping EXCEPT !.data_source_id = target.id, !.container_id = target.container_id, !.active = FALSE]

\* what save leaves in the mapping: the row the mapper wrote (Object.assign(t, result.value)),
\* and on success the transformations the bulk calls returned
Saved(mapping, i, outcome) ==
    IF outcome = "failed" THEN mapping
    ELSE LET m == [mapping EXCEPT !.id = NewMappingIDs[i], !.created_at = "t1", !.created_by = "u1",
                                  !.modified_at = "t1", !.modified_by = "u1"]
         IN  IF outcome = "failed after the mapping write"
             THEN [m EXCEPT !.transformations =
                               [j \in 1..Len(@) |-> [@[j] EXCEPT !.type_mapping_id = m.id]]]
             ELSE [m EXCEPT !.transformations =
                               [j \in 1..Len(@) |-> [@[j] EXCEPT !.type_mapping_id = m.id, !.id = NewTransformationIDs[i]]]]

SaveOutcomes == {"success", "failed", "failed after the mapping write"}

NoMapping == [id |-> Undefined]

NoResult == [isError |-> FALSE, value |-> NoMapping, set |-> FALSE]

\* Promise.all that yields the results in the order the promises resolved
PromiseAllInCompletionOrder(results, finished) == [i \in 1..Len(results) |-> results[finished[i]]]

\* Promise.all(imported)
PromiseAll(results, finished) == results

ImportIdle == im = [pc |-> "idle"]

ImportInit ==
    \E l \in MappingLists(MaxMappings) :
        im = [pc |-> "retrieve", original |-> l, mappings |-> <<>>, wf |-> <<>>,
              results |-> <<>>, finished |-> <<>>, returned |-> <<>>, retrieved |-> FALSE]

\* this.#dataSourceMapper.Retrieve(targetSourceID), the copies, and the promises
ImportRetrieve ==
    /\ im.pc = "retrieve"
    /\ \E ok \in BOOLEAN :
          im' = IF ~ok
                THEN [im EXCEPT !.pc = "returned",
                                !.returned = <<[isError |-> TRUE, value |-> NoMapping, set |-> TRUE]>>]
                ELSE [im EXCEPT !.pc = "running", !.retrieved = TRUE,
                                !.mappings = im.original,
                                !.wf = [i \in 1..Len(im.original) |->
                                           [pc |-> "prepare", separate |-> FALSE, handed |-> NoMapping,
                                            saves |-> 0, outcome |-> "none"]],
                                !.results = [i \in 1..Len(im.original) |-> NoResult]]
    /\ ImportFrame

\* mapping = await this.prepareForImport(mapping, mapping.container_id !== target.container_id)
ImportPrepareAt(i) ==
    /\ im.pc = "running"
    /\ im.wf[i].pc = "prepare"
    /\ LET separate == im.mappings[i].container_id # TargetSource.container_id
       IN  im' = [im EXCEPT !.mappings[i] = prepareForImport(@, separate),
                            !.wf[i].separate = separate,
                            !.wf[i].pc = "retarget"]
    /\ ImportFrame

\* the ids of the target are set, then backfillIDs is called if there are transformations
ImportRetargetAt(i) ==
    /\ im.pc = "running"
    /\ im.wf[i].pc = "retarget"
    /\ im' = [im EXCEPT !.mappings[i] = Retarget(@, TargetSource),
                        !.wf[i].pc = "backfill"]
    /\ ImportFrame

\* backfillIDs returned; save is called
ImportBackfillAt(i) ==
    /\ im.pc = "running"
    /\ im.wf[i].pc = "backfill"
    /\ LET m == [im.mappings[i] EXCEPT !.transformations = [j \in 1..Len(@) |-> backfillIDs(@[j])]]
       IN  im' = [im EXCEPT !.mappings[i] = m,
                            !.wf[i].handed = m,
                            !.wf[i].saves = @ + 1,
                            !.wf[i].pc = "save"]
    /\ ImportFrame

\* the Result a workflow resolves with: on failure it carries mappings[index]
ImportResult(outcome, mapping, kept) ==
    IF outcome # "success" THEN [isError |-> TRUE, value |-> kept, set |-> TRUE]
    ELSE [isError |-> FALSE, value |-> mapping, set |-> TRUE]

\* save returned; the promise of the mapping resolves
ImportSaveAt(i) ==
    /\ im.pc = "running"
    /\ im.wf[i].pc = "save"
    /\ \E outcome \in SaveOutcomes :
          LET m == Saved(im.mappings[i], i, outcome)
          IN  im' = [im EXCEPT !.mappings[i] = m,
                               !.wf[i].outcome = outcome,
                               !.wf[i].pc = "done",
                               !.results[i] = ImportResult(outcome, m, m),
                               !.finished = Append(@, i)]
    /\ ImportFrame

\* an awaited call of a workflow (populateKeys, backfillIDs, save) rejects: the async
\* executor ends without calling resolve, and its promise stays pending
ImportRejectAt(i) ==
    /\ im.pc = "running"
    /\ im.wf[i].pc \in {"prepare", "backfill", "save"}
    /\ im' = [im EXCEPT !.wf[i].pc = "rejected"]
    /\ ImportFrame

\* Promise.all resolves once every promise has
ImportReturn ==
    /\ im.pc = "running"
    /\ \A i \in 1..Len(im.wf) : im.wf[i].pc = "done"
    /\ im' = [im EXCEPT !.pc = "returned", !.returned = PromiseAll(im.results, im.finished)]
    /\ ImportFrame

\* a step of any of the workflows
ImportPrepare == \E i \in 1..Len(im.wf) : ImportPrepareAt(i)

ImportRetarget == \E i \in 1..Len(im.wf) : ImportRetargetAt(i)

ImportBackfill == \E i \in 1..Len(im.wf) : ImportBackfillAt(i)

ImportSave == \E i \in 1..Len(im.wf) : ImportSaveAt(i)

ImportReject == \E i \in 1..Len(im.wf) : ImportRejectAt(i)

ImportNext ==
    \/ ImportRetrieve
    \/ ImportPrepare
    \/ ImportRetarget
    \/ ImportBackfill
    \/ ImportSave
    \/ ImportReject
    \/ ImportReturn

(***************************************************************************)
(* SpecChangelist: calls of ChangelistRepository.save, setStatus,          *)
(* approveChangelist and revokeApproval on one changelist, one call after  *)
(* the other.  cl is                                                       *)
(*   pc          between (between two calls) or the await a call stands at *)
(*   stored      the row of the changelist: exists, status, changelist     *)
(*               (the payload)                                             *)
(*   approvals   the approval rows of the changelist, by approver          *)
(*   op          the call under way or last returned: its name, argument,  *)
(*               the row and approvals when it began, whether its          *)
(*               SetStatus took effect, whether populateChangelist ran     *)
(*   c           the record passed to save                                 *)
(*   result      what the last call returned                               *)
(***************************************************************************)
MaxApprovals == 2

Statuses == {"pending", "approved", "rejected", "applied", "deprecated", "ready"}

Approvers == {"u1", "u2"}

\* the payload of a record: the default of the class, the one populateChangelist builds,
\* or one the caller put there
EmptyPayload == "empty"

BuiltPayload == "built"

Payloads == {EmptyPayload, BuiltPayload, "edited"}

NoRow == [exists |-> FALSE, status |-> "none", changelist |-> EmptyPayload]

NoRecord == [hasID |-> FALSE, status |-> "none", changelist |-> EmptyPayload]

ChangelistIdle == cl = [pc |-> "idle"]

ChangelistInit ==
    cl = [pc |-> "between", stored |-> NoRow, approvals |-> <<>>,
          op |-> [name |-> "none", arg |-> "none", stored |-> NoRow, approvals |-> <<>>,
                  statusSet |-> FALSE, populated |-> FALSE],
          c |-> NoRecord, result |-> [isError |-> FALSE]]

\* a call begins
Begin(name, arg) ==
    [name |-> name, arg |-> arg, stored |-> cl.stored, approvals |-> cl.approvals,
     statusSet |-> FALSE, populated |-> FALSE]

\* ChangelistMapper.setStatusStatement: UPDATE changelists SET status = $2 WHERE id = $1
setStatusStatement(row, status) == [row EXCEPT !.status = status]

\* ChangelistMapper.fullUpdateStatement: status and changelist are both set from the record
fullUpdateStatement(row, record) ==
    [row EXCEPT !.status = record.status, !.changelist = record.changelist]

\* ChangelistMapper.createStatement
createStatement(record) ==
    [exists |-> TRUE, status |-> record.status, changelist |-> record.changelist]

\* ChangelistRepository.setStatus: the mapper's SetStatus and nothing else
CLSetStatus ==
    /\ cl.pc = "between"
    /\ cl.stored.exists
    /\ \E status \in Statuses, ok \in BOOLEAN :
          cl' = [cl EXCEPT !.op = [Begin("setStatus", status) EXCEPT !.statusSet = ok],
                           !.stored = IF ok THEN setStatusStatement(@, status) ELSE @,
                           !.result = [isError |-> ~ok]]
    /\ ChangelistFrame

\* approveChangelist: await SetStatus(id, approver, 'approved'), its Result dropped
CLApprove ==
    /\ cl.pc = "between"
    /\ cl.stored.exists
    /\ Len(cl.approvals) < MaxApprovals
    /\ \E approver \in Approvers, ok \in BOOLEAN :
          cl' = [cl EXCEPT !.pc = "approve",
                           !.op = [Begin("approveChangelist", approver) EXCEPT !.statusSet = ok],
                           !.stored = IF ok THEN setStatusStatement(@, "approved") ELSE @]
    /\ ChangelistFrame

\* approveChangelist: return approvalMapper.Create(...)
CLApprovalCreate ==
    /\ cl.pc = "approve"
    /\ \E ok \in BOOLEAN :
          cl' = [cl EXCEPT !.pc = "between",
                           !.approvals = IF ok THEN Append(@, cl.op.arg) ELSE @,
                           !.result = [isError |-> ~ok]]
    /\ ChangelistFrame

\* revokeApproval: await SetStatus(id, approver, 'rejected'), its Result dropped
CLRevoke ==
    /\ cl.pc = "between"
    /\ cl.stored.exists
    /\ \E approver \in Approvers, ok \in BOOLEAN :
          cl' = [cl EXCEPT !.pc = "revoke",
                           !.op = [Begin("revokeApproval", approver) EXCEPT !.statusSet = ok],
                           !.stored = IF ok THEN setStatusStatement(@, "rejected") ELSE @]
    /\ ChangelistFrame

\* revokeApproval: return approvalMapper.DeleteByChangelist(changelistID)
CLApprovalDelete ==
    /\ cl.pc = "revoke"
    /\ \E ok \in BOOLEAN :
          cl' = [cl EXCEPT !.pc = "between",
                           !.approvals = IF ok THEN <<>> ELSE @,
                           !.result = [isError |-> ~ok]]
    /\ ChangelistFrame

\* the records save is called with: a new one (no id) while the changelist is not stored,
\* afterwards one that carries its id; any status, also one the class does not allow
SaveRecords ==
    { [hasID |-> cl.stored.exists, status |-> status, changelist |-> changelist] :
        status \in Statuses \cup {"unknown"}, changelist \in Payloads }

\* c.validationErrors(): @IsIn on status
validationErrors(record) == record.status \notin Statuses

\* Object.assign(original.value, c): every own property of c, status and changelist included
ObjectAssign(original, record) ==
    [original EXCEPT !.status = record.status, !.changelist = record.changelist]

\* save: validation, then the branch on c.id
CLSave ==
    /\ cl.pc = "between"
    /\ \E record \in SaveRecords :
          cl' = IF validationErrors(record)
                THEN [cl EXCEPT !.op = Begin("save", "invalid"), !.c = record,
                                !.result = [isError |-> TRUE]]
                ELSE [cl EXCEPT !.op = Begin("save", IF record.hasID THEN "update" ELSE "create"),
                                !.c = record,
                                !.pc = IF record.hasID THEN "save_find" ELSE "save_populate"]
    /\ ChangelistFrame

\* save with an id: findByID(c.id) and Object.assign(original.value, c)
CLSaveFind ==
    /\ cl.pc = "save_find"
    /\ \E ok \in BOOLEAN :
          cl' = IF ok
                THEN [cl EXCEPT !.pc = "save_update"]
                ELSE [cl EXCEPT !.pc = "between", !.result = [isError |-> TRUE]]
    /\ ChangelistFrame

\* save with an id: mapper.Update(user.id, original.value)
CLSaveUpdate ==
    /\ cl.pc = "save_update"
    /\ \E ok \in BOOLEAN :
          cl' = IF ok
                THEN [cl EXCEPT !.pc = "between",
                                !.stored = fullUpdateStatement(@, ObjectAssign(cl.op.stored, cl.c)),
                                !.result = [isError |-> FALSE]]
                ELSE [cl EXCEPT !.pc = "between", !.result = [isError |-> TRUE]]
    /\ ChangelistFrame

\* save without an id: populateChangelist(c)
CLSavePopulate ==
    /\ cl.pc = "save_populate"
    /\ \E ok \in BOOLEAN :
          cl' = IF ok
                THEN [cl EXCEPT !.pc = "save_create", !.op.populated = TRUE,
                                !.c.changelist = BuiltPayload]
                ELSE [cl EXCEPT !.pc = "between", !.op.populated = TRUE,
                                !.result = [isError |-> TRUE]]
    /\ ChangelistFrame

\* save without an id: mapper.Create(user.id, c)
CLSaveCreate ==
    /\ cl.pc = "save_create"
    /\ \E ok \in BOOLEAN :
          cl' = IF ok
                THEN [cl EXCEPT !.pc = "between", !.stored = createStatement(cl.c),
                                !.c.hasID = TRUE, !.result = [isError |-> FALSE]]
                ELSE [cl EXCEPT !.pc = "between", !.result = [isError |-> TRUE]]
    /\ ChangelistFrame

ChangelistNext ==
    \/ CLSave
    \/ CLSaveFind
    \/ CLSaveUpdate
    \/ CLSavePopulate
    \/ CLSaveCreate
    \/ CLSetStatus
    \/ CLApprove
    \/ CLApprovalCreate
    \/ CLRevoke
    \/ CLApprovalDelete

(***************************************************************************)
(* SpecPopulate: one call of populateChangelist(changelist) against the    *)
(* ontology of the containers.  pop is                                     *)
(*   pc          build | metatypes | relationships | pairs | returned      *)
(*   changelist  the record: container_id, base_ontology_version_id and,   *)
(*               once built, the payload                                   *)
(*   rows        the (container, ontology version) combinations for which  *)
(*               the store holds a metatype, a relationship and a pair     *)
(*   filters     the query each of the three repositories was given        *)
(*   read        what the reads returned so far                            *)
(*   result      what populateChangelist returned                          *)
(***************************************************************************)
\* the ontology_version of a row of the current ontology
NullVersion == "null"

Containers == {"c1", "c2"}

OntologyVersions == {NullVersion, "v1"}

OntologyRows == [container_id : Containers, ontology_version : OntologyVersions]

\* base_ontology_version_id of the record: not set, or a version
BaseVersions == {Undefined, "v1", "v2"}

Kinds == {"metatypes", "relationships", "pairs"}

\* the rows a repository's list returns for .where().containerID('eq', c).and().ontologyVersion(operator, value):
\* 'is null' selects the rows without a version, 'eq' those whose version is the value
\* (no row's version equals an undefined value)
ListOntology(rows, filter) ==
    { r \in rows :
        /\ r.container_id = filter.container_id
        /\ IF filter.operator = "is null"
           THEN r.ontology_version = NullVersion
           ELSE filter.value # Undefined /\ r.ontology_version = filter.value }

\* the three repositories as populateChangelist filters them
Filters(changelist) ==
    [k \in Kinds |->
        IF changelist.base_ontology_version_id # Undefined
        THEN [container_id |-> changelist.container_id, operator |-> "eq",
              value |-> changelist.base_ontology_version_id]
        ELSE IF k = "metatypes"
             THEN [container_id |-> changelist.container_id, operator |-> "is null", value |-> Undefined]
             ELSE [container_id |-> changelist.container_id, operator |-> "eq",
                   value |-> changelist.base_ontology_version_id]]

NoPayload == [k \in Kinds |-> {}]

PopulateIdle == pop = [pc |-> "idle"]

PopulateInit ==
    \E container \in Containers, base \in BaseVersions, rows \in SUBSET OntologyRows :
        pop = [pc |-> "build",
               changelist |-> [container_id |-> container, base_ontology_version_id |-> base,
                               changelist |-> NoPayload, built |-> FALSE],
               rows |-> rows,
               filters |-> [k \in Kinds |-> [container_id |-> Undefined, operator |-> "none", value |-> Undefined]],
               read |-> NoPayload, reads |-> <<>>,
               result |-> [isError |-> FALSE]]

\* the three repositories are created and filtered
PopBuild ==
    /\ pop.pc = "build"
    /\ pop' = [pop EXCEPT !.pc = "metatypes", !.filters = Filters(pop.changelist)]
    /\ PopulateFrame

\* one of the first two reads: on an error populateChangelist returns it
PopRead(kind, next) ==
    /\ pop.pc = kind
    /\ \E ok \in BOOLEAN :
          pop' = IF ok
                 THEN [pop EXCEPT !.pc = next, !.reads = Append(@, kind),
                                  !.read[kind] = ListOntology(pop.rows, pop.filters[kind])]
                 ELSE [pop EXCEPT !.pc = "returned", !.reads = Append(@, kind),
                                  !.result = [isError |-> TRUE]]
    /\ PopulateFrame

PopListMetatypes == PopRead("metatypes", "relationships")

PopListRelationships == PopRead("relationships", "pairs")

\* the read of the pairs, and the payload
PopListPairs ==
    /\ pop.pc = "pairs"
    /\ \E ok \in BOOLEAN :
          pop' = IF ok
                 THEN LET read == [pop.read EXCEPT !["pairs"] = ListOntology(pop.rows, pop.filters["pairs"])]
                      IN  [pop EXCEPT !.pc = "returned", !.reads = Append(@, "pairs"),
                                      !.read = read,
                                      !.changelist.changelist = read,
                                      !.changelist.built = TRUE,
                                      !.result = [isError |-> FALSE]]
                 ELSE [pop EXCEPT !.pc = "returned", !.reads = Append(@, "pairs"),
                                  !.result = [isError |-> TRUE]]
    /\ PopulateFrame

PopulateNext ==
    \/ PopBuild
    \/ PopListMetatypes
    \/ PopListRelationships
    \/ PopListPairs

(***************************************************************************)
(* SpecQuery: one ChangelistRepository instance on which filters are       *)
(* chained and list and count are called, one call after the other.  rq is *)
(*   select    the SELECT that heads _rawQuery                             *)
(*   filters   the fields the chained filters added to _rawQuery           *)
(*   issued    the queries sent so far: the call, its SELECT, its filters  *)
(***************************************************************************)
MaxQueries == 3

\* the SELECT of the constructor: every column but changelist
LightweightSelect == "id, name, container_id, status, created_at, modified_at, created_by, modified_by, applied_at, base_ontology_version_id"

\* the SELECT the base Repository starts from and goes back to after a query
DefaultSelect == "*"

CountSelect == "COUNT(*)"

FilterFields == {"container_id", "status", "created_by"}

\* Repository.findAll: sends _rawQuery and goes back to its default query
findAll(q) ==
    [q EXCEPT !.issued = Append(@, [call |-> "list", select |-> q.select, filters |-> q.filters]),
              !.select = DefaultSelect,
              !.filters = {}]

\* Repository.count: sends _rawQuery with COUNT(*) as its SELECT and goes back to its default query
count(q) ==
    [q EXCEPT !.issued = Append(@, [call |-> "count", select |-> CountSelect, filters |-> q.filters]),
              !.select = DefaultSelect,
              !.filters = {}]

QueryIdle == rq = [pc |-> "idle"]

\* constructor
QueryInit == rq = [pc |-> "ready", select |-> LightweightSelect, filters |-> {}, issued |-> <<>>]

\* containerID / status / createdBy: super.query(field, operator, value)
RQFilter ==
    /\ rq.pc = "ready"
    /\ Len(rq.issued) < MaxQueries
    /\ \E field \in FilterFields \ rq.filters :
          rq' = [rq EXCEPT !.filters = @ \cup {field}]
    /\ QueryFrame

\* list: super.findAll, then _rawQuery is set to the explicit SELECT again
RQList ==
    /\ rq.pc = "ready"
    /\ Len(rq.issued) < MaxQueries
    /\ rq' = [findAll(rq) EXCEPT !.select = LightweightSelect]
    /\ QueryFrame

\* count: super.count() and nothing else
RQCount ==
    /\ rq.pc = "ready"
    /\ Len(rq.issued) < MaxQueries
    /\ rq' = count(rq)
    /\ QueryFrame

QueryNext ==
    \/ RQFilter
    \/ RQList
    \/ RQCount

(***************************************************************************)
(* SpecSchema: one call of ForContainer(containerID).  Names are sequences *)
(* of characters, so that building a type name is a concatenation.  sg is  *)
(*   pc          metatypes | pairs | returned                              *)
(*   metatypes   the metatypes of the container, with their keys           *)
(*   pairs       the relationship pairs of the container                   *)
(*   pairList    the grouping table built from the pairs                   *)
(*   reads       the ontology reads made                                   *)
(*   fields      the query fields built, by field name: filter arguments,  *)
(*               output fields, the resolver                               *)
(*   types       the names of the named types built, one per type          *)
(*   resolvers   the number of resolvers created                           *)
(*   result      success | failure | rejected (schema construction threw)  *)
(***************************************************************************)
MaxKeys == 2

MetatypeNames == {<<"a">>, <<"a", "_", "b">>, <<"a", " ", "b">>}

RelationshipNames == {<<"r">>, <<"r", " ", "s">>}

MaxPairs == 3

KeyNames == {<<"c">>, <<"b", "_", "c">>}

DataTypes == {"number", "boolean", "string", "date", "file", "list", "enumeration"}

\* a data type of legacy data that the switch does not know
LegacyDataType == "unknown"

OptionSets == {{"x"}, {"x", "y"}}

\* the keys a metatype may have: an enumeration has options, the others have none
MetatypeKeys ==
    { [name |-> n, property_name |-> n, data_type |-> d, options |-> {}] :
        n \in KeyNames, d \in (DataTypes \ {"enumeration"}) \cup {LegacyDataType} }
    \cup { [name |-> n, property_name |-> n, data_type |-> "enumeration", options |-> o] :
             n \in KeyNames, o \in OptionSets }

\* key lists of up to n keys whose names differ (the sanitized name is unique in a metatype)
RECURSIVE KeyLists(_)
KeyLists(n) ==
    IF n = 0 THEN {<<>>}
    ELSE LET shorter == KeyLists(n - 1)
         IN  shorter \cup
             { Append(l, k) : l \in {x \in shorter : Len(x) = n - 1},
                              k \in MetatypeKeys }

DistinctKeyNames(keys) == \A i, j \in 1..Len(keys) : i # j => keys[i].property_name # keys[j].property_name

SchemaMetatypes ==
    { [name |-> n, keys |-> l] : n \in MetatypeNames, l \in {k \in KeyLists(MaxKeys) : DistinctKeyNames(k)} }

\* the containers: one metatype with any keys, two metatypes with one key each, or two
\* metatypes without keys
SchemaContainers ==
    { <<m>> : m \in SchemaMetatypes } \cup
    { <<m1, m2>> : m1 \in {m \in SchemaMetatypes : m.name = <<"a">> /\ Len(m.keys) = 1},
                   m2 \in {m \in SchemaMetatypes : m.name = <<"a", "_", "b">> /\ Len(m.keys) = 1} } \cup
    { <<m1, m2>> : m1 \in {m \in SchemaMetatypes : m.name = <<"a">> /\ Len(m.keys) = 0},
                   m2 \in {m \in SchemaMetatypes : m.name # <<"a">> /\ Len(m.keys) = 0} }

\* the separator of a pair's name
PairSeparator == <<" ", ":", " ">>

\* a relationship pair is named 'origin : relationship : destination'
MetatypePair(origin, rel, dest) ==
    [name |-> origin \o PairSeparator \o rel \o PairSeparator \o dest]

\* the pairs there can be between the metatypes
PairsOf(metatypes) ==
    { MetatypePair(metatypes[i].name, rel, metatypes[j].name) :
        i \in 1..Len(metatypes), rel \in RelationshipNames, j \in 1..Len(metatypes) }

\* the lists of up to n of these pairs
RECURSIVE PairLists(_, _)
PairLists(metatypes, n) ==
    IF n = 0 THEN {<<>>}
    ELSE LET shorter == PairLists(metatypes, n - 1)
         IN  shorter \cup
             { Append(l, pair) : l \in {x \in shorter : Len(x) = n - 1},
                                 pair \in PairsOf(metatypes) }

\* the pair lists of a container: metatypes with keys have no pairs
SchemaPairs(metatypes) ==
    IF \A i \in 1..Len(metatypes) : Len(metatypes[i].keys) = 0
    THEN PairLists(metatypes, MaxPairs)
    ELSE {<<>>}

\* stringToValidPropertyName: characters that are not allowed in an identifier are replaced
stringToValidPropertyName(name) ==
    [i \in 1..Len(name) |-> IF name[i] = " " THEN "_" ELSE name[i]]

Scalar(kind) == [kind |-> kind, name |-> <<>>, values |-> {}]

\* new GraphQLEnumType({name: stringToValidPropertyName(`${metatype.name}_${metatypeKey.name}_${suffix}`), values: enumMap})
EnumType(metatype, key, suffix) ==
    [kind |-> "Enum",
     name |-> stringToValidPropertyName(metatype.name \o <<"_">> \o key.name \o <<"_">> \o <<suffix>>),
     values |-> key.options]

\* what the case label 'string' || 'date' || 'file' evaluates to
CaseStringDateFile == "string"

\* a switch that sends every key but an enumeration to String
FieldTypeStringly(metatype, key, suffix) ==
    IF key.data_type = "enumeration" THEN EnumType(metatype, key, suffix) ELSE Scalar("String")

\* the switch on metatypeKey.data_type, the same in the output fields and in inputFieldsForMetatype
FieldType(metatype, key, suffix) ==
    CASE key.data_type = "number" -> Scalar("Float")
      [] key.data_type = "boolean" -> Scalar("Boolean")
      [] key.data_type = CaseStringDateFile -> Scalar("String")
      [] key.data_type = "list" -> Scalar("List of JSON")
      [] key.data_type = "enumeration" -> EnumType(metatype, key, suffix)
      [] OTHER -> Scalar("String")

PropertyNames(metatype) ==
    { stringToValidPropertyName(metatype.keys[i].property_name) : i \in 1..Len(metatype.keys) }

\* the key that is written last under a property name
LastKey(metatype, propertyName) ==
    LET i == CHOOSE k \in 1..Len(metatype.keys) :
                /\ stringToValidPropertyName(metatype.keys[k].property_name) = propertyName
                /\ \A l \in (k + 1)..Len(metatype.keys) :
                      stringToValidPropertyName(metatype.keys[l].property_name) # propertyName
    IN  metatype.keys[i]

\* inputFieldsForMetatype(metatype)
inputFieldsForMetatype(metatype) ==
    [p \in PropertyNames(metatype) |-> FieldType(metatype, LastKey(metatype, p), "Enum_Type_B")]

\* the value the executor hands the resolver for an argument given as the string text:
\* Float and Boolean take no string, an enum only the name of one of its values, a list
\* wraps a single value
coerceArgument(type, text) ==
    CASE type.kind = "String" -> [ok |-> TRUE, value |-> [kind |-> "string", text |-> text]]
      [] type.kind = "List of JSON" -> [ok |-> TRUE, value |-> [kind |-> "list", items |-> <<text>>]]
      [] type.kind = "Enum" -> [ok |-> \E o \in type.values : text = <<o>>,
                                value |-> [kind |-> "string", text |-> text]]
      [] OTHER -> [ok |-> FALSE, value |-> [kind |-> "none"]]

\* String(input[key])
StringOf(value) ==
    CASE value.kind = "string" -> value.text
      [] value.kind = "list" ->
            LET RECURSIVE Commas(_)
                Commas(items) == IF Len(items) = 0 THEN <<>>
                                 ELSE IF Len(items) = 1 THEN items[1]
                                 ELSE items[1] \o <<",">> \o Commas(Tail(items))
            IN  Commas(value.items)

\* the fields thunk of the metatype's object type, without _record and _relationship
outputFields(metatype) ==
    [p \in PropertyNames(metatype) |-> FieldType(metatype, LastKey(metatype, p), "Enum_TypeA")]

\* the names of the enum types among the fields, in the order of the keys
RECURSIVE EnumNames(_, _, _)
EnumNames(metatype, fields, i) ==
    IF i > Len(metatype.keys) THEN <<>>
    ELSE LET p == stringToValidPropertyName(metatype.keys[i].property_name)
             own == IF LastKey(metatype, p) = metatype.keys[i] /\ fields[p].kind = "Enum"
                    THEN <<fields[p].name>>
                    ELSE <<>>
         IN  own \o EnumNames(metatype, fields, i + 1)

\* the named types ForContainer creates for one metatype
TypeNamesOf(metatype) ==
    << metatype.name \o <<"_destination_input">>,
       metatype.name \o <<"_relationship_input">>,
       metatype.name \o <<"_destinationInfo">>,
       metatype.name \o <<"_relationshipInfo">>,
       stringToValidPropertyName(metatype.name) >>
    \o EnumNames(metatype, inputFieldsForMetatype(metatype), 1)
    \o EnumNames(metatype, outputFields(metatype), 1)

RECURSIVE TypeNames(_, _)
TypeNames(metatypes, i) ==
    IF i > Len(metatypes) THEN << <<"record_input">>, <<"recordInfo">>, <<"Query">> >>
    ELSE TypeNamesOf(metatypes[i]) \o TypeNames(metatypes, i + 1)

\* new GraphQLSchema(...) throws when two of its types have the same name
UniquelyNamed(types) == \A i, j \in 1..Len(types) : i # j => types[i] # types[j]

NoFields == [f \in {} |-> 0]

\* s.split(sep)
RECURSIVE SplitOn(_, _)
SplitOn(s, sep) ==
    LET at(i) == SubSeq(s, i, i + Len(sep) - 1) = sep
        places == { i \in 1..(Len(s) - Len(sep) + 1) : at(i) }
    IN  IF places = {} THEN <<s>>
        ELSE LET i == CHOOSE k \in places : \A l \in places : k <= l
             IN  <<SubSeq(s, 1, i - 1)>> \o SplitOn(SubSeq(s, i + Len(sep), Len(s)), sep)

\* a table entry written without looking whether the origin is in the table already
AddEntryAfresh(table, origin, rel, dest) ==
    [o \in DOMAIN table \cup {origin} |->
        IF o = origin THEN (rel :> (dest :> "String")) ELSE table[o]]

\* if(!(origin in list)) list[origin] = {}; if(!(rel in list[origin])) list[origin][rel] = {};
\* if(!(dest in list[origin][rel])) list[origin][rel][dest] = {type: GraphQLString}
AddEntry(table, origin, rel, dest) ==
    LET t1 == IF origin \in DOMAIN table THEN table ELSE table @@ (origin :> NoFields)
        t2 == IF rel \in DOMAIN t1[origin] THEN t1
              ELSE [t1 EXCEPT ![origin] = @ @@ (rel :> NoFields)]
    IN  IF dest \in DOMAIN t2[origin][rel] THEN t2
        ELSE [t2 EXCEPT ![origin][rel] = @ @@ (dest :> "String")]

\* metatypePairList after the forEach over the pairs: a forward and a reverse entry per pair
RECURSIVE metatypePairList(_)
metatypePairList(pairs) ==
    IF pairs = <<>> THEN NoFields
    ELSE LET pair == pairs[Len(pairs)]
             origin == stringToValidPropertyName(SplitOn(pair.name, PairSeparator)[1])
             rel == stringToValidPropertyName(SplitOn(pair.name, PairSeparator)[2])
             dest == stringToValidPropertyName(SplitOn(pair.name, PairSeparator)[3])
             before == metatypePairList(SubSeq(pairs, 1, Len(pairs) - 1))
         IN  AddEntry(AddEntry(before, origin, rel, dest), dest, rel, origin)

\* the fields thunk of `${metatype.name}_destination_input`
destinationInputFields(table, metatype) ==
    IF metatype.name \in DOMAIN table
    THEN [dest \in UNION { DOMAIN table[metatype.name][pair] : pair \in DOMAIN table[metatype.name] } |->
             "Boolean"]
    ELSE NoFields

\* the fields thunk of `${metatype.name}_relationship_input`
relationshipInputFields(table, metatype) ==
    IF metatype.name \in DOMAIN table
    THEN [rel \in DOMAIN table[metatype.name] |-> "List of destination_input"]
    ELSE NoFields

\* metatypeGraphQLObjects: one query field per metatype, under its sanitized name
QueryFields(containerID, metatypes, table) ==
    [f \in { stringToValidPropertyName(metatypes[i].name) : i \in 1..Len(metatypes) } |->
        LET i == CHOOSE k \in 1..Len(metatypes) :
                    /\ stringToValidPropertyName(metatypes[k].name) = f
                    /\ \A l \in (k + 1)..Len(metatypes) : stringToValidPropertyName(metatypes[l].name) # f
            metatype == metatypes[i]
        IN  [args |-> inputFieldsForMetatype(metatype),
             relationship |-> relationshipInputFields(table, metatype),
             destination |-> destinationInputFields(table, metatype),
             output |-> outputFields(metatype),
             resolve |-> [containerID |-> containerID, metatype |-> metatype.name]]]

SchemaIdle == sg = [pc |-> "idle"]

SchemaInit ==
    \E metatypes \in SchemaContainers : \E pairs \in SchemaPairs(metatypes) :
        sg = [pc |-> "metatypes", metatypes |-> metatypes, pairs |-> pairs,
              reads |-> <<>>, failed |-> "none",
              built |-> FALSE, pairList |-> NoFields,
              fields |-> NoFields, types |-> <<>>, resolvers |-> 0, result |-> "none"]

\* a metatype read whose failure is not returned
SGListMetatypesContinuing ==
    /\ sg.pc = "metatypes"
    /\ \E ok \in BOOLEAN :
          sg' = [sg EXCEPT !.pc = "pairs", !.reads = Append(@, "metatypes"),
                           !.failed = IF ok THEN @ ELSE "metatypes"]
    /\ SchemaFrame

\* metatypeRepo.where().containerID('eq', containerID).list(true)
SGListMetatypes ==
    /\ sg.pc = "metatypes"
    /\ \E ok \in BOOLEAN :
          sg' = IF ok
                THEN [sg EXCEPT !.pc = "pairs", !.reads = Append(@, "metatypes")]
                ELSE [sg EXCEPT !.pc = "returned", !.reads = Append(@, "metatypes"),
                                !.failed = "metatypes", !.result = "failure"]
    /\ SchemaFrame

\* metatypePairRepo.where().containerID('eq', containerID).list(), and on success the
\* query fields, their resolvers and the schema
SGListPairs ==
    /\ sg.pc = "pairs"
    /\ \E ok \in BOOLEAN :
          sg' = IF ok
                THEN LET types == TypeNames(sg.metatypes, 1)
                         table == metatypePairList(sg.pairs)
                     IN  [sg EXCEPT !.pc = "returned", !.reads = Append(@, "pairs"),
                                    !.built = TRUE,
                                    !.pairList = table,
                                    !.fields = QueryFields(ContainerID, sg.metatypes, table),
                                    !.types = types,
                                    !.resolvers = Len(sg.metatypes),
                                    !.result = IF UniquelyNamed(types) THEN "success" ELSE "rejected"]
                ELSE [sg EXCEPT !.pc = "returned", !.reads = Append(@, "pairs"),
                                !.failed = "pairs", !.result = "failure"]
    /\ SchemaFrame

SchemaNext ==
    \/ SGListMetatypes
    \/ SGListPairs

(***************************************************************************)
(* SpecConcurrent: two field resolutions of one generated schema, for the  *)
(* same or for different metatypes, interleaved at their awaits.  cr is    *)
(*   procs   the two invocations: metatype, arguments, where each stands,  *)
(*           its edgeResults, the node query it executed, what it resolved *)
(*           with                                                          *)
(*   repos   the NodeRepository objects: the predicates chained on each    *)
(*   trace   the steps taken, in order                                     *)
(***************************************************************************)
Tank == [id |-> "mTank", name |-> "Tank", keys |-> <<>>]

NoRecordInput ==
    [present |-> FALSE, data_source_id |-> NoFilter, original_id |-> NoFilter, import_id |-> NoFilter,
     limit |-> DefaultLimit, page |-> DefaultPage]

NoRelationshipInput == [present |-> FALSE, relationship |-> <<>>, destination |-> ""]

\* the resolutions that may run side by side
ConcurrentCalls ==
    { [metatype |-> Pump,
       input |-> [_record |-> NoRecordInput, _relationship |-> NoRelationshipInput, properties |-> <<>>]],
      [metatype |-> Pump,
       input |-> [_record |-> [NoRecordInput EXCEPT !.present = TRUE, !.data_source_id = <<"5">>],
                  _relationship |-> [present |-> TRUE, relationship |-> <<"f">>, destination |-> "Tank"],
                  properties |-> <<>>]],
      [metatype |-> Pump,
       input |-> [_record |-> NoRecordInput,
                  _relationship |-> [present |-> TRUE, relationship |-> <<"f", "_", "b">>, destination |-> "Tank"],
                  properties |-> <<[key |-> "flow_rate", value |-> <<">", " ", "4">>]>>]],
      [metatype |-> Pump,
       input |-> [_record |-> NoRecordInput, _relationship |-> NoRelationshipInput,
                  properties |-> <<[key |-> "serial_no", value |-> <<"5">>]>>]],
      [metatype |-> Tank,
       input |-> [_record |-> NoRecordInput, _relationship |-> NoRelationshipInput, properties |-> <<>>]],
      [metatype |-> Tank,
       input |-> [_record |-> NoRecordInput,
                  _relationship |-> [present |-> TRUE, relationship |-> <<"g">>, destination |-> "Pump"],
                  properties |-> <<>>]] }

Invocation(call) ==
    [metatype |-> call.metatype, input |-> call.input, pc |-> "start", edges |-> NoValue,
     listed |-> <<>>, value |-> NoValue]

ConcurrentIdle == cr = [pc |-> "idle"]

ConcurrentInit ==
    \E first \in ConcurrentCalls, second \in ConcurrentCalls :
        cr = [pc |-> "running", procs |-> <<Invocation(first), Invocation(second)>>,
              repos |-> <<<<>>, <<>>>>, trace |-> <<>>]

\* one repository object for all invocations
SharedRepository(i) == 1

\* let repo = new NodeRepository(): the repository object of the i-th invocation is its own
NewRepository(i) == i

\* the call of repo.list by invocation i, with the predicates chained on its repository
ConcurrentCallList(state, i) ==
    [state EXCEPT !.procs[i].pc = "list",
                  !.procs[i].listed = <<[predicates |-> state.repos[NewRepository(i)], limit |-> ListLimit]>>]

\* from the call to the first await
ConcurrentBeginOf(i) ==
    /\ cr.procs[i].pc = "start"
    /\ LET proc == cr.procs[i]
           chained == [cr EXCEPT !.repos[NewRepository(i)] =
                                     @ \o ScopePredicates(ContainerID, proc.metatype)
                                       \o RecordPredicates(proc.input._record),
                                 !.trace = Append(@, <<i, "begin">>)]
       IN  cr' = IF proc.input._relationship.present
                 THEN [chained EXCEPT !.procs[i].pc = "edges"]
                 ELSE ConcurrentCallList(
                          [chained EXCEPT !.repos[NewRepository(i)] =
                                              @ \o PropertyPredicates(proc.metatype, proc.input.properties)], i)
    /\ ConcurrentFrame

ConcurrentBegin == \E i \in 1..2 : ConcurrentBeginOf(i)

\* the edge lookup of invocation i returns: the id predicate, the property predicates
\* and the list call
ConcurrentEdgesOf(i) ==
    /\ cr.procs[i].pc = "edges"
    /\ LET proc == cr.procs[i]
           edges == FindByRelationship(proc.metatype.name,
                                       ReplaceUnderscore(proc.input._relationship.relationship),
                                       proc.input._relationship.destination)
       IN  cr' = ConcurrentCallList(
                     [cr EXCEPT !.procs[i].edges = ListValue(edges),
                                !.repos[NewRepository(i)] =
                                    @ \o RelationshipPredicates(edges)
                                      \o PropertyPredicates(proc.metatype, proc.input.properties),
                                !.trace = Append(@, <<i, "edges">>)], i)
    /\ ConcurrentFrame

ConcurrentEdges == \E i \in 1..2 : ConcurrentEdgesOf(i)

\* the edge lookup of invocation i fails: its promise rejects, no node query is made
ConcurrentEdgesFailOf(i) ==
    /\ cr.procs[i].pc = "edges"
    /\ cr' = [cr EXCEPT !.procs[i].pc = "done",
                        !.procs[i].edges = ErrorValue("edge lookup failed"),
                        !.procs[i].value = ErrorValue("rejected"),
                        !.trace = Append(@, <<i, "edges failed">>)]
    /\ ConcurrentFrame

ConcurrentEdgesFail == \E i \in 1..2 : ConcurrentEdgesFailOf(i)

\* the node list of invocation i returns its rows, which are reshaped and resolved
ConcurrentListOf(i) ==
    /\ cr.procs[i].pc = "list"
    /\ cr' = [cr EXCEPT !.procs[i].pc = "done",
                        !.procs[i].value = ListValue(ReshapeAll(ListNodes(cr.procs[i].listed[1].predicates))),
                        !.trace = Append(@, <<i, "list">>)]
    /\ ConcurrentFrame

ConcurrentList == \E i \in 1..2 : ConcurrentListOf(i)

ConcurrentNext ==
    \/ ConcurrentBegin
    \/ ConcurrentEdges
    \/ ConcurrentEdgesFail
    \/ ConcurrentList

CacheIdle == cc = [pc |-> "idle"]

(***************************************************************************)
(* SpecCache: one call of findByID, findByShapeHash, save or delete for    *)
(* the stored mapping, with the cache tasks the call starts and does not   *)
(* await.  A Cache.get, Cache.set or Cache.del that fails returns a falsy  *)
(* value.  The database work of save is one step here (SpecSave has its    *)
(* steps).  cc is                                                          *)
(*   pc, call       where the call stands, which it is                     *)
(*   load, hasID    loadTransformations; whether the mapping passed to     *)
(*                  save or delete has an id                               *)
(*   cache          which of the two cache entries of the mapping exist    *)
(*   db             the stored mapping: stored | updated | deleted         *)
(*   mapper         how the mapper calls of this call went                 *)
(*   tasks          the setCache / deleteCached calls under way            *)
(*   failures       the cache operations that failed                       *)
(*   logged         the number of errors logged                            *)
(*   promise, result  the call's promise and the Result it returned        *)
(***************************************************************************)
CacheCalls == {"findByID", "findByShapeHash", "save", "delete"}

NoCacheResult == [isError |-> FALSE, value |-> "none"]

CacheInit ==
    \E call \in CacheCalls, load \in BOOLEAN, hasID \in BOOLEAN, byID \in BOOLEAN, byShape \in BOOLEAN :
        /\ call \in {"save", "delete"} => load
        /\ call \in {"findByID", "findByShapeHash"} => hasID
        /\ cc = [pc |-> IF call \in {"save", "delete"} THEN "persist" ELSE "get",
                 call |-> call, load |-> load, hasID |-> hasID,
                 cache |-> [byID |-> byID, byShape |-> byShape],
                 db |-> "stored", mapper |-> [called |-> FALSE, ok |-> FALSE, listed |-> FALSE],
                 tasks |-> <<>>, failures |-> <<>>, logged |-> 0,
                 promise |-> "pending", result |-> NoCacheResult]

CacheOutcomes(present) == IF present THEN {"hit", "failed"} ELSE {"miss", "failed"}

\* a getCached whose failed Cache.get rejects
getCachedThrowing(outcome) ==
    CASE outcome = "hit" -> [kind |-> "mapping"]
      [] outcome = "failed" -> [kind |-> "rejected"]
      [] OTHER -> [kind |-> "undefined"]

\* getCached / getCachedByShapeHash: the mapping when Cache.get returned an entry, else undefined
getCached(outcome) ==
    IF outcome = "hit" THEN [kind |-> "mapping"] ELSE [kind |-> "undefined"]

CacheReturn(state, result) == [state EXCEPT !.pc = "done", !.promise = "fulfilled", !.result = result]

CacheFailed(state, operation) ==
    [state EXCEPT !.failures = Append(@, operation)]

\* const cached = await this.getCached(id); if (cached) return Result.Success(cached);
\* were the awaited promise rejected, the call's promise would be
CacheGet ==
    /\ cc.pc = "get"
    /\ \E outcome \in CacheOutcomes(cc.cache[CacheKey(cc.call)]) :
          LET cached == getCached(outcome)
              state == IF outcome = "failed" THEN CacheFailed(cc, "get") ELSE cc
          IN  cc' = CASE cached.kind = "mapping" ->
                            CacheReturn(state, [isError |-> FALSE, value |-> "cached mapping"])
                      [] cached.kind = "rejected" ->
                            [state EXCEPT !.pc = "done", !.promise = "rejected"]
                      [] OTHER -> [state EXCEPT !.pc = "retrieve"]
    /\ CacheFrame

\* what the mapper's Retrieve and ListForTypeMapping give the caller
Retrieved(ok, load, listed) ==
    IF ~ok THEN [isError |-> TRUE, value |-> "none"]
    ELSE IF load /\ listed THEN [isError |-> FALSE, value |-> "stored mapping with transformations"]
    ELSE [isError |-> FALSE, value |-> "stored mapping"]

\* Retrieve / RetrieveByShapeHash, ListForTypeMapping, void this.setCache(retrieved.value)
CacheRetrieve ==
    /\ cc.pc = "retrieve"
    /\ \E ok \in BOOLEAN, listed \in BOOLEAN :
          /\ ~ok => ~listed
          /\ ~cc.load => ~listed
          /\ cc' = CacheReturn(
                      [cc EXCEPT !.mapper = [called |-> TRUE, ok |-> ok, listed |-> listed],
                                 !.tasks = IF ok /\ cc.load
                                           THEN Append(@, [kind |-> "set", step |-> "byID"])
                                           ELSE @],
                      Retrieved(ok, cc.load, listed))
    /\ CacheFrame

\* what save and delete return for a mapper call that went well or not
Persisted(ok) ==
    IF ok THEN [isError |-> FALSE, value |-> "true"] ELSE [isError |-> TRUE, value |-> "none"]

\* save: void this.deleteCached(t) when t has an id, then the writes and the commit;
\* when saveTransformations is reached with a transformation, its cache entry is deleted
\* without being awaited
CacheSave ==
    /\ cc.pc = "persist"
    /\ cc.call = "save"
    /\ \E ok \in BOOLEAN, transformation \in BOOLEAN :
          cc' = CacheReturn(
                   [cc EXCEPT !.mapper = [called |-> TRUE, ok |-> ok, listed |-> FALSE],
                              !.db = IF ok THEN "updated" ELSE @,
                              !.tasks = (IF cc.hasID THEN <<[kind |-> "delete", step |-> "byID"]>> ELSE <<>>)
                                        \o (IF transformation
                                            THEN <<[kind |-> "delete", step |-> "transformation"]>>
                                            ELSE <<>>)],
                   Persisted(ok))
    /\ CacheFrame

\* delete: void this.deleteCached(t) and the mapper's Delete; without an id a failure
CacheDelete ==
    /\ cc.pc = "persist"
    /\ cc.call = "delete"
    /\ \E ok \in BOOLEAN :
          cc' = IF cc.hasID
                THEN CacheReturn(
                         [cc EXCEPT !.mapper = [called |-> TRUE, ok |-> ok, listed |-> FALSE],
                                    !.db = IF ok THEN "deleted" ELSE @,
                                    !.tasks = <<[kind |-> "delete", step |-> "byID"]>>],
                         Persisted(ok))
                ELSE CacheReturn(cc, [isError |-> TRUE, value |-> "none"])
    /\ CacheFrame

\* the next Cache.set or Cache.del of a task: under the id key, then under the key of data
\* source and shape hash; a failed one is logged and the task goes on
CacheTask ==
    /\ cc.pc # "idle"
    /\ \E i \in 1..Len(cc.tasks), ok \in BOOLEAN :
          LET task == cc.tasks[i]
              done == [cc EXCEPT !.tasks = IF task.step = "byID"
                                           THEN [@ EXCEPT ![i].step = "byShape"]
                                           ELSE RemoveAt(@, i)]
              state == IF task.step = "transformation" THEN done
                       ELSE [done EXCEPT !.cache[task.step] = IF ok THEN task.kind = "set" ELSE @]
          IN  cc' = IF ok THEN state
                    ELSE [CacheFailed(state, task.kind) EXCEPT !.logged = @ + 1]
    /\ CacheFrame

CacheNext ==
    \/ CacheGet
    \/ CacheRetrieve
    \/ CacheSave
    \/ CacheDelete
    \/ CacheTask

(***************************************************************************)
(* SpecNodes, SpecBatch: NodeStorage (src/unnamed/part_004) over the nodes *)
(* table.  SpecNodes runs calls of CreateOrUpdate, Archive,                *)
(* PermanentlyDelete and the five reads one after the other; SpecBatch     *)
(* runs one call of CreateOrUpdate or CreateOrUpdateStatement on a batch   *)
(* that may hold nodes that do not validate.  ns is                        *)
(*   store     the rows of the nodes table                                 *)
(*   calls     the number of calls made                                    *)
(*   nextID    the next value generateUUID hands out                       *)
(*   op, input, arg   the last call: its name, its batch, its arguments    *)
(*   before    the rows when the last call began                           *)
(*   db        whether the database carried out what the call sent it      *)
(*   ran       the statements the call handed to runAsTransaction          *)
(*   statements  the statements CreateOrUpdateStatement returned           *)
(*   returned  the rows a read came back with                              *)
(*   result    what the call returned                                      *)
(***************************************************************************)
MaxNodeCalls == 2

NoID == 0

NodeContainer == "c1"

NodeGraph == "g1"

\* MetatypeStorage.Instance.Retrieve(metatype_id): "mN" is not stored, "mX" belongs to
\* another container
MetatypeRetrieve(id) ==
    CASE id = "mN" -> [isError |-> TRUE, container_id |-> "", name |-> ""]
      [] id = "mX" -> [isError |-> FALSE, container_id |-> "c2", name |-> "X"]
      [] OTHER -> [isError |-> FALSE, container_id |-> NodeContainer, name |-> "M"]

\* MetatypeKeyStorage.Instance.List(metatype id): the keys of "mE" cannot be listed, "m0"
\* has no keys
MetatypeKeyList(id) ==
    CASE id = "mE" -> [isError |-> TRUE, length |-> 0]
      [] id = "m0" -> [isError |-> FALSE, length |-> 0]
      [] OTHER -> [isError |-> FALSE, length |-> 1]

\* a node as a caller passes it: id and metatype_name may be missing (NoID, ""), modified
\* says that modified_at or deleted_at is set
NodeInput(id, metatype, name, properties, modified, original, source) ==
    [id |-> id, container_id |-> "", graph_id |-> "", metatype_id |-> metatype,
     metatype_name |-> name, properties |-> properties, modified |-> modified,
     original_data_id |-> original, data_source_id |-> source]

\* the nodes the sequences of calls are made of: they validate against metatype "m1"
SequenceNodes ==
    { NodeInput(id, "m1", "M", "p1", modified, pair[1], pair[2]) :
        id \in {NoID, 1}, modified \in BOOLEAN,
        pair \in {<<"", "">>, <<"o1", "d1">>, <<"o2", "d1">>} }

SequenceBatches ==
    { <<n>> : n \in SequenceNodes }
    \cup { <<a, b>> : a, b \in {n \in SequenceNodes : n.id = NoID /\ ~n.modified} }

\* the nodes of one batch: also nodes of a metatype that is missing, foreign, without
\* listable keys or without keys, nodes whose properties do not match, nodes without
\* metatype_name
BatchNodes ==
    { NodeInput(id, "m1", name, "p1", modified, original, "d1") :
        id \in {NoID, 1}, name \in {"", "M"}, modified \in BOOLEAN, original \in {"", "o1"} }
    \cup { NodeInput(NoID, metatype, "M", "p1", FALSE, "o2", "d1") : metatype \in {"m0", "mX", "mE", "mN"} }
    \cup { NodeInput(NoID, "m0", "", "p1", FALSE, "", ""), NodeInput(NoID, "m1", "M", "bad", FALSE, "o2", "d1") }

Batches == { <<n>> : n \in BatchNodes } \cup { <<a, b>> : a, b \in BatchNodes }

NodeRow(id, metatype, properties, original, source, archived) ==
    [id |-> id, container_id |-> NodeContainer, graph_id |-> NodeGraph, metatype_id |-> metatype,
     metatype_name |-> "M", properties |-> properties, original_data_id |-> original,
     data_source_id |-> source, archived |-> archived]

InitialRows == { NodeRow(1, "m1", "p0", "o1", "d1", FALSE), NodeRow(2, "m1", "p0", "", "", FALSE) }

NoNodeArg == [id |-> NoID, container_id |-> "", metatype_id |-> "", original_data_id |-> "", data_source_id |-> ""]

NodeIdle == ns = [pc |-> "idle"]

NodeInit ==
    ns = [pc |-> "ready", store |-> InitialRows, calls |-> 0, nextID |-> 10, op |-> "none",
          input |-> <<>>, arg |-> NoNodeArg, before |-> InitialRows, db |-> TRUE, ran |-> <<>>,
          statements |-> <<>>, returned |-> {}, result |-> [isError |-> FALSE]]

\* validateNodeProperties: the properties are decoded against the compiled keys
validateNodeProperties(typeKeys, properties) == properties # "bad"

\* the rows a statement's ON CONFLICT (original_data_id, data_source_id) or
\* WHERE original_data_id = .. AND data_source_id = .. picks: NULL equals nothing
SamePair(store, n) ==
    { r \in store : /\ n.original_data_id # "" /\ n.data_source_id # ""
                    /\ r.original_data_id = n.original_data_id
                    /\ r.data_source_id = n.data_source_id }

nodesCreateStatementInsertOnly(store, n) ==
    store \cup { [id |-> n.id, container_id |-> n.container_id, graph_id |-> n.graph_id,
                  metatype_id |-> n.metatype_id, metatype_name |-> n.metatype_name,
                  properties |-> n.properties, original_data_id |-> n.original_data_id,
                  data_source_id |-> n.data_source_id, archived |-> FALSE] }

\* NodeStorage.createStatement: INSERT INTO nodes(...) VALUES(...) ON CONFLICT (original_data_id,
\* data_source_id) DO UPDATE SET container_id, metatype_id, metatype_name, graph_id,
\* properties, original_data_id, data_source_id, data_type_mapping_id, modified_at
nodesCreateStatement(store, n) ==
    IF SamePair(store, n) # {}
    THEN { IF r \in SamePair(store, n)
           THEN [r EXCEPT !.container_id = n.container_id, !.metatype_id = n.metatype_id,
                          !.metatype_name = n.metatype_name, !.graph_id = n.graph_id,
                          !.properties = n.properties]
           ELSE r : r \in store }
    ELSE store \cup { [id |-> n.id, container_id |-> n.container_id, graph_id |-> n.graph_id,
                       metatype_id |-> n.metatype_id, metatype_name |-> n.metatype_name,
                       properties |-> n.properties, original_data_id |-> n.original_data_id,
                       data_source_id |-> n.data_source_id, archived |-> FALSE] }

\* the SET list of fullUpdateStatement and fullUpdateByOriginalIDStatement
FullUpdate(r, n) ==
    [r EXCEPT !.container_id = n.container_id, !.graph_id = n.graph_id,
              !.properties = n.properties, !.original_data_id = n.original_data_id,
              !.data_source_id = n.data_source_id]

\* NodeStorage.fullUpdateStatement: UPDATE nodes SET ... WHERE id = $9
nodesFullUpdateStatement(store, n) == { IF r.id = n.id THEN FullUpdate(r, n) ELSE r : r \in store }

\* fullUpdateByOriginalIDStatement: UPDATE nodes SET ... WHERE original_data_id = $9 AND
\* data_source_id = $10
fullUpdateByOriginalIDStatement(store, n) ==
    { IF r \in SamePair(store, n) THEN FullUpdate(r, n) ELSE r : r \in store }

\* archiveStatement: UPDATE nodes SET archived = true WHERE id = $1
archiveStatement(store, id) == { IF r.id = id THEN [r EXCEPT !.archived = TRUE] ELSE r : r \in store }

\* deleteStatement: DELETE FROM nodes WHERE id = $1
deleteStatement(store, id) == { r \in store : r.id # id }

retrieveStatementArchivedToo(store, id) == { r \in store : r.id = id }

\* retrieveStatement: SELECT * FROM nodes WHERE id = $1 AND NOT archived
retrieveStatement(store, id) == { r \in store : r.id = id /\ ~r.archived }

\* domainRetrieveStatement: ... WHERE id = $1 AND container_id = $2 AND NOT archived
domainRetrieveStatement(store, id, containerID) ==
    { r \in store : r.id = id /\ r.container_id = containerID /\ ~r.archived }

\* retrieveByOriginalIDStatement: ... WHERE original_data_id = $1 AND data_source_id = $2
\* AND NOT archived
retrieveByOriginalIDStatement(store, dataSourceID, originalID) ==
    { r \in store : r.original_data_id = originalID /\ r.data_source_id = dataSourceID /\ ~r.archived }

\* listStatement: ... WHERE container_id = $1 AND NOT archived OFFSET $2 LIMIT $3, with an
\* offset and a limit that cut nothing off
listStatement(store, containerID) == { r \in store : r.container_id = containerID /\ ~r.archived }

\* listByMetatypeIDStatement: ... WHERE metatype_id = $1 AND NOT archived OFFSET $2 LIMIT $3
listByMetatypeIDStatement(store, metatypeID) == { r \in store : r.metatype_id = metatypeID /\ ~r.archived }

\* the statement of one node (CreateOrUpdate and CreateOrUpdateStatement alike): update by
\* id, update by original id, or create under a fresh id
StatementOf(n, uuid) ==
    IF n.modified /\ n.id # NoID
    THEN [kind |-> "fullUpdate", n |-> n]
    ELSE IF n.modified /\ n.id = NoID /\ n.original_data_id # "" /\ n.data_source_id # ""
         THEN [kind |-> "fullUpdateByOriginalID", n |-> n]
         ELSE [kind |-> "create", n |-> [n EXCEPT !.id = uuid]]

NodeFailure(error) == [isError |-> TRUE, error |-> error, queries |-> <<>>]

RECURSIVE CreateOrUpdateSkipping(_, _, _, _)
CreateOrUpdateSkipping(containerID, graphID, nodes, uuid) ==
    IF nodes = <<>> THEN [isError |-> FALSE, error |-> "", queries |-> <<>>]
    ELSE LET n == Head(nodes)
             m == MetatypeRetrieve(n.metatype_id)
             typeKeys == MetatypeKeyList(n.metatype_id)
             filled == [n EXCEPT !.graph_id = graphID, !.container_id = containerID,
                                 !.metatype_name = IF @ = "" THEN m.name ELSE @]
             q == StatementOf(filled, uuid)
             skip == \/ m.isError \/ m.container_id # containerID \/ typeKeys.isError
                     \/ ~validateNodeProperties(typeKeys, n.properties)
             rest == CreateOrUpdateSkipping(containerID, graphID, Tail(nodes),
                                            IF ~skip /\ q.kind = "create" THEN uuid + 1 ELSE uuid)
         IN  IF skip THEN rest ELSE [rest EXCEPT !.queries = <<q>> \o @]

\* CreateOrUpdate, the loop of onValidateSuccess: the first node that does not validate
\* resolves a failure; the keys of a metatype are fetched once and kept in keysByMetatypeID
RECURSIVE CreateOrUpdateQueries(_, _, _, _)
CreateOrUpdateQueries(containerID, graphID, nodes, uuid) ==
    IF nodes = <<>> THEN [isError |-> FALSE, error |-> "", queries |-> <<>>]
    ELSE LET n == Head(nodes)
             m == MetatypeRetrieve(n.metatype_id)
             typeKeys == MetatypeKeyList(n.metatype_id)
             filled == [n EXCEPT !.graph_id = graphID, !.container_id = containerID,
                                 !.metatype_name = IF @ = "" THEN m.name ELSE @]
             q == StatementOf(filled, uuid)
             rest == CreateOrUpdateQueries(containerID, graphID, Tail(nodes),
                                           IF q.kind = "create" THEN uuid + 1 ELSE uuid)
         IN  IF m.isError \/ m.container_id # containerID
             THEN NodeFailure("unable to find metatype, or metatype does not belong to container")
             ELSE IF typeKeys.isError \/ typeKeys.length < 0
                  THEN NodeFailure("keys")
                  ELSE IF ~validateNodeProperties(typeKeys, n.properties)
                       THEN NodeFailure("node's properties do no match declared metatype")
                       ELSE IF rest.isError THEN rest ELSE [rest EXCEPT !.queries = <<q>> \o @]

\* CreateOrUpdateStatement: the same loop, with typeKeys.value.length <= 0 and without the
\* metatype_name of the metatype
RECURSIVE CreateOrUpdateStatementQueries(_, _, _, _)
CreateOrUpdateStatementQueries(containerID, graphID, nodes, uuid) ==
    IF nodes = <<>> THEN [isError |-> FALSE, error |-> "", queries |-> <<>>]
    ELSE LET n == Head(nodes)
             m == MetatypeRetrieve(n.metatype_id)
             typeKeys == MetatypeKeyList(n.metatype_id)
             filled == [n EXCEPT !.graph_id = graphID, !.container_id = containerID]
             q == StatementOf(filled, uuid)
             rest == CreateOrUpdateStatementQueries(containerID, graphID, Tail(nodes),
                                                    IF q.kind = "create" THEN uuid + 1 ELSE uuid)
         IN  IF m.isError \/ m.container_id # containerID
             THEN NodeFailure("unable to find metatype, or metatype does not belong to container")
             ELSE IF typeKeys.isError \/ typeKeys.length <= 0
                  THEN NodeFailure("keys")
                  ELSE IF ~validateNodeProperties(typeKeys, n.properties)
                       THEN NodeFailure("node's properties do no match declared metatype")
                       ELSE IF rest.isError THEN rest ELSE [rest EXCEPT !.queries = <<q>> \o @]

\* the unique index on (original_data_id, data_source_id) that ON CONFLICT names
UniqueViolation(store) ==
    \E r1, r2 \in store :
        /\ r1 # r2
        /\ r1.original_data_id # "" /\ r1.data_source_id # ""
        /\ r1.original_data_id = r2.original_data_id
        /\ r1.data_source_id = r2.data_source_id

\* the database carrying out one statement
Execute(store, q) ==
    CASE q.kind = "fullUpdate" -> nodesFullUpdateStatement(store, q.n)
      [] q.kind = "fullUpdateByOriginalID" -> fullUpdateByOriginalIDStatement(store, q.n)
      [] OTHER -> nodesCreateStatement(store, q.n)

RECURSIVE ExecuteAll(_, _)
ExecuteAll(store, queries) ==
    IF queries = <<>> THEN [isError |-> FALSE, store |-> store]
    ELSE LET next == Execute(store, Head(queries))
         IN  IF UniqueViolation(next) THEN [isError |-> TRUE, store |-> store]
             ELSE ExecuteAll(next, Tail(queries))

\* PostgresStorage.runAsTransaction: every statement or none
runAsTransaction(store, queries, ok) ==
    LET all == ExecuteAll(store, queries)
    IN  IF ok /\ ~all.isError THEN [isError |-> FALSE, store |-> all.store]
        ELSE [isError |-> TRUE, store |-> store]

NodeCall(op, input, arg) ==
    [ns EXCEPT !.calls = @ + 1, !.op = op, !.input = input, !.arg = arg, !.before = ns.store,
               !.db = TRUE, !.ran = <<>>, !.statements = <<>>, !.returned = {},
               !.result = [isError |-> FALSE]]

\* CreateOrUpdate(containerID, graphID, input)
CreateOrUpdateOf(batches, max) ==
    /\ ns.pc = "ready"
    /\ ns.calls < max
    /\ \E input \in batches, ok \in BOOLEAN :
          LET v == CreateOrUpdateQueries(NodeContainer, NodeGraph, input, ns.nextID)
              r == runAsTransaction(ns.store, v.queries, ok)
              call == NodeCall("CreateOrUpdate", input, NoNodeArg)
          IN  ns' = IF v.isError
                    THEN [call EXCEPT !.nextID = @ + Len(input), !.result = [isError |-> TRUE]]
                    ELSE [call EXCEPT !.ran = v.queries, !.db = ok, !.store = r.store,
                                      !.nextID = @ + Len(input),
                                      !.result = [isError |-> r.isError]]
    /\ NodeFrame

\* CreateOrUpdateStatement(containerID, graphID, ns): the statements are returned, not run
CreateOrUpdateStatementOf(batches, max) ==
    /\ ns.pc = "ready"
    /\ ns.calls < max
    /\ \E input \in batches :
          LET v == CreateOrUpdateStatementQueries(NodeContainer, NodeGraph, input, ns.nextID)
              call == NodeCall("CreateOrUpdateStatement", input, NoNodeArg)
          IN  ns' = [call EXCEPT !.statements = v.queries, !.nextID = @ + Len(input),
                                 !.result = [isError |-> v.isError]]
    /\ NodeFrame

NSCreateOrUpdate == CreateOrUpdateOf(SequenceBatches, MaxNodeCalls)

BatchCreateOrUpdate == CreateOrUpdateOf(Batches, 1)

BatchCreateOrUpdateStatement == CreateOrUpdateStatementOf(Batches, 1)

StoredIDs == { r.id : r \in ns.store }

\* Archive(id)
NSArchive ==
    /\ ns.pc = "ready"
    /\ ns.calls < MaxNodeCalls
    /\ \E id \in StoredIDs, ok \in BOOLEAN :
          ns' = [NodeCall("Archive", <<>>, [NoNodeArg EXCEPT !.id = id])
                   EXCEPT !.db = ok, !.store = IF ok THEN archiveStatement(@, id) ELSE @,
                          !.result = [isError |-> ~ok]]
    /\ NodeFrame

\* PermanentlyDelete(id)
NSPermanentlyDelete ==
    /\ ns.pc = "ready"
    /\ ns.calls < MaxNodeCalls
    /\ \E id \in StoredIDs, ok \in BOOLEAN :
          ns' = [NodeCall("PermanentlyDelete", <<>>, [NoNodeArg EXCEPT !.id = id])
                   EXCEPT !.db = ok, !.store = IF ok THEN deleteStatement(@, id) ELSE @,
                          !.result = [isError |-> ~ok]]
    /\ NodeFrame

\* PostgresStorage.retrieve: the row found, or a failure when there is none
NodeRead(op, arg, rows) ==
    [NodeCall(op, <<>>, arg) EXCEPT !.returned = rows, !.result = [isError |-> rows = {}]]

\* Retrieve(id)
NSRetrieve ==
    /\ ns.pc = "ready"
    /\ ns.calls < MaxNodeCalls
    /\ \E id \in StoredIDs :
          ns' = NodeRead("Retrieve", [NoNodeArg EXCEPT !.id = id], retrieveStatement(ns.store, id))
    /\ NodeFrame

\* DomainRetrieve(id, containerID)
NSDomainRetrieve ==
    /\ ns.pc = "ready"
    /\ ns.calls < MaxNodeCalls
    /\ \E id \in StoredIDs :
          ns' = NodeRead("DomainRetrieve", [NoNodeArg EXCEPT !.id = id, !.container_id = NodeContainer],
                         domainRetrieveStatement(ns.store, id, NodeContainer))
    /\ NodeFrame

\* RetrieveByOriginalID(originalID, dataSourceID)
NSRetrieveByOriginalID ==
    /\ ns.pc = "ready"
    /\ ns.calls < MaxNodeCalls
    /\ \E originalID \in {"o1", "o2"} :
          ns' = NodeRead("RetrieveByOriginalID",
                         [NoNodeArg EXCEPT !.original_data_id = originalID, !.data_source_id = "d1"],
                         retrieveByOriginalIDStatement(ns.store, "d1", originalID))
    /\ NodeFrame

\* List(containerID, offset, limit)
NSList ==
    /\ ns.pc = "ready"
    /\ ns.calls < MaxNodeCalls
    /\ ns' = [NodeRead("List", [NoNodeArg EXCEPT !.container_id = NodeContainer],
                       listStatement(ns.store, NodeContainer)) EXCEPT !.result = [isError |-> FALSE]]
    /\ NodeFrame

\* ListByMetatypeID(metatypeID, offset, limit)
NSListByMetatypeID ==
    /\ ns.pc = "ready"
    /\ ns.calls < MaxNodeCalls
    /\ ns' = [NodeRead("ListByMetatypeID", [NoNodeArg EXCEPT !.metatype_id = "m1"],
                       listByMetatypeIDStatement(ns.store, "m1")) EXCEPT !.result = [isError |-> FALSE]]
    /\ NodeFrame

NodeNext ==
    \/ NSCreateOrUpdate
    \/ NSArchive
    \/ NSPermanentlyDelete
    \/ NSRetrieve
    \/ NSDomainRetrieve
    \/ NSRetrieveByOriginalID
    \/ NSList
    \/ NSListByMetatypeID

BatchNext ==
    \/ BatchCreateOrUpdate
    \/ BatchCreateOrUpdateStatement

(***************************************************************************)
(* SpecIngest: two ingests of payloads of one shape for one data source,   *)
(* side by side.  Each calls findByShapeHash and, when no mapping is       *)
(* found, save with a new mapping (no id).  A step is the code between two *)
(* awaits.  ig is                                                          *)
(*   proc      per ingest: where it stands, whether findByShapeHash        *)
(*             missed, whether the mapper's CreateOrUpdate was called,     *)
(*             whether its transaction was committed, whether a call       *)
(*             failed                                                      *)
(*   rows      the committed mappings of the (data_source_id, shape_hash)  *)
(*   cache     whether the cache holds the mapping under the shape hash    *)
(*   conflict  what the store does with a second mapping of the pair:      *)
(*             "update" the row that is there, or "insert" another         *)
(***************************************************************************)
Ingests == 1..2

IngestIdle == ig = [pc |-> "idle"]

IngestInit ==
    \E conflict \in {"update", "insert"} :
        ig = [pc |-> "running",
              proc |-> [p \in Ingests |-> [pc |-> "find", missed |-> FALSE, created |-> FALSE,
                                          committed |-> FALSE, failed |-> FALSE]],
              rows |-> 0, cache |-> FALSE, conflict |-> conflict]

\* a save that looks for a mapping of the pair before it creates one
SaveCreatesIfAbsent(rows) == rows = 0

\* save without id: the mapper's CreateOrUpdate is called whatever the store holds
SaveCreates(rows) == TRUE

\* TypeMappingMapper.CreateOrUpdate and the commit of its transaction
CreateOrUpdateCommitted(rows, conflict) ==
    IF conflict = "update" /\ rows >= 1 THEN rows ELSE rows + 1

\* findByShapeHash: getCachedByShapeHash
IngestCachedOf(p) ==
    /\ ig.pc = "running"
    /\ ig.proc[p].pc = "find"
    /\ \E hit \in {ig.cache, FALSE} :
          ig' = [ig EXCEPT !.proc[p].pc = IF hit THEN "done" ELSE "retrieve"]
    /\ IngestFrame

\* findByShapeHash: RetrieveByShapeHash, void setCache on a mapping found
IngestRetrieveOf(p) ==
    /\ ig.pc = "running"
    /\ ig.proc[p].pc = "retrieve"
    /\ \E set \in BOOLEAN :
          ig' = IF ig.rows >= 1
                THEN [ig EXCEPT !.proc[p].pc = "done", !.cache = @ \/ set]
                ELSE [ig EXCEPT !.proc[p].pc = "save", !.proc[p].missed = TRUE]
    /\ IngestFrame

\* save: validation, startTransaction
IngestSaveOf(p) ==
    /\ ig.pc = "running"
    /\ ig.proc[p].pc = "save"
    /\ \E ok \in BOOLEAN :
          ig' = IF ok THEN [ig EXCEPT !.proc[p].pc = "create"]
                ELSE [ig EXCEPT !.proc[p].pc = "done", !.proc[p].failed = TRUE]
    /\ IngestFrame

\* save: this.#mapper.CreateOrUpdate(user.id, t, transaction)
IngestCreateOf(p) ==
    /\ ig.pc = "running"
    /\ ig.proc[p].pc = "create"
    /\ \E ok \in BOOLEAN :
          ig' = IF ~SaveCreates(ig.rows)
                THEN [ig EXCEPT !.proc[p].pc = "done"]
                ELSE IF ok
                     THEN [ig EXCEPT !.proc[p].pc = "commit", !.proc[p].created = TRUE]
                     ELSE [ig EXCEPT !.proc[p].pc = "done", !.proc[p].created = TRUE,
                                     !.proc[p].failed = TRUE]
    /\ IngestFrame

\* save: completeTransaction
IngestCommitOf(p) ==
    /\ ig.pc = "running"
    /\ ig.proc[p].pc = "commit"
    /\ \E ok \in BOOLEAN :
          ig' = IF ok
                THEN [ig EXCEPT !.proc[p].pc = "done", !.proc[p].committed = TRUE,
                                !.rows = CreateOrUpdateCommitted(@, ig.conflict)]
                ELSE [ig EXCEPT !.proc[p].pc = "done", !.proc[p].failed = TRUE]
    /\ IngestFrame

IngestCached == \E p \in Ingests : IngestCachedOf(p)

IngestRetrieve == \E p \in Ingests : IngestRetrieveOf(p)

IngestSave == \E p \in Ingests : IngestSaveOf(p)

IngestCreate == \E p \in Ingests : IngestCreateOf(p)

IngestCommit == \E p \in Ingests : IngestCommitOf(p)

IngestNext ==
    \/ IngestCached
    \/ IngestRetrieve
    \/ IngestSave
    \/ IngestCreate
    \/ IngestCommit

(***************************************************************************)
(* SpecRace: one write of a stored mapping (save with its id, or delete)   *)
(* and one findByID / findByShapeHash of the same mapping side by side,    *)
(* with the cache tasks they start with void.  A step is the code between  *)
(* two awaits.  rc is                                                      *)
(*   db        the persisted mapping: "v0" before the write, "v1" after a  *)
(*             committed save, "gone" after a delete                       *)
(*   cache     the entries under the id and under the shape hash: "none"   *)
(*             or the version they hold                                    *)
(*   writer    the write: its operation and where it stands                *)
(*   reader    the find: its operation, where it stands, what it got       *)
(*   del, set  the deleteCached task of the write and the setCache task of *)
(*             the find: "none", the key it works on next, or "done"       *)
(*   failures  the Cache.del and Cache.set calls that failed               *)
(***************************************************************************)
CacheKeys == {"byID", "byShape"}

RaceIdle == rc = [pc |-> "idle"]

RaceInit ==
    \E write \in {"save", "delete"}, find \in {"findByID", "findByShapeHash"}, entry \in {"none", "v0"} :
        rc = [pc |-> "running", db |-> "v0",
              cache |-> [k \in CacheKeys |-> entry],
              writer |-> [op |-> write, pc |-> "start", isError |-> FALSE],
              reader |-> [op |-> find, pc |-> "get", value |-> "none"],
              del |-> "none", set |-> "none", failures |-> 0]

\* the cache key a find looks under
KeyOf(find) == IF find = "findByID" THEN "byID" ELSE "byShape"

\* void this.deleteCached(t): the task starts, its first Cache.del is under way
deleteCached(state) == [state EXCEPT !.del = "byID"]

\* save with id / delete: void deleteCached(t), then the mapper's Update / Delete is awaited
RaceWrite ==
    /\ rc.pc = "running"
    /\ rc.writer.pc = "start"
    /\ rc' = [deleteCached(rc) EXCEPT !.writer.pc = "write"]
    /\ RaceFrame

\* the mapper's Update or Delete returns; Delete takes effect at once, Update at the commit
RaceWritten ==
    /\ rc.pc = "running"
    /\ rc.writer.pc = "write"
    /\ \E ok \in BOOLEAN :
          rc' = IF ~ok THEN [rc EXCEPT !.writer.pc = "done", !.writer.isError = TRUE]
                ELSE IF rc.writer.op = "delete"
                     THEN [rc EXCEPT !.writer.pc = "done", !.db = "gone"]
                     ELSE [rc EXCEPT !.writer.pc = "commit"]
    /\ RaceFrame

\* save: completeTransaction
RaceCommit ==
    /\ rc.pc = "running"
    /\ rc.writer.pc = "commit"
    /\ \E ok \in BOOLEAN :
          rc' = IF ok THEN [rc EXCEPT !.writer.pc = "done", !.db = "v1"]
                ELSE [rc EXCEPT !.writer.pc = "done", !.writer.isError = TRUE]
    /\ RaceFrame

\* findByID / findByShapeHash: getCached / getCachedByShapeHash
RaceGet ==
    /\ rc.pc = "running"
    /\ rc.reader.pc = "get"
    /\ \E got \in {rc.cache[KeyOf(rc.reader.op)], "none"} :
          rc' = IF got # "none"
                THEN [rc EXCEPT !.reader.pc = "done", !.reader.value = got]
                ELSE [rc EXCEPT !.reader.pc = "retrieve"]
    /\ RaceFrame

\* findByID / findByShapeHash: Retrieve, ListForTypeMapping, void setCache(retrieved.value)
RaceRetrieve ==
    /\ rc.pc = "running"
    /\ rc.reader.pc = "retrieve"
    /\ rc' = IF rc.db = "gone"
             THEN [rc EXCEPT !.reader.pc = "done", !.reader.value = "gone"]
             ELSE [rc EXCEPT !.reader.pc = "done", !.reader.value = rc.db, !.set = "byID"]
    /\ RaceFrame

NextKey(step) == IF step = "byID" THEN "byShape" ELSE "done"

\* deleteCached: a Cache.del returns
RaceDeleteCached ==
    /\ rc.pc = "running"
    /\ rc.del \in CacheKeys
    /\ \E ok \in BOOLEAN :
          rc' = [rc EXCEPT !.del = NextKey(@),
                           !.cache[rc.del] = IF ok THEN "none" ELSE @,
                           !.failures = IF ok THEN @ ELSE @ + 1]
    /\ RaceFrame

\* setCache: a Cache.set returns
RaceSetCache ==
    /\ rc.pc = "running"
    /\ rc.set \in CacheKeys
    /\ \E ok \in BOOLEAN :
          rc' = [rc EXCEPT !.set = NextKey(@),
                           !.cache[rc.set] = IF ok THEN rc.reader.value ELSE @,
                           !.failures = IF ok THEN @ ELSE @ + 1]
    /\ RaceFrame

RaceNext ==
    \/ RaceWrite
    \/ RaceWritten
    \/ RaceCommit
    \/ RaceGet
    \/ RaceRetrieve
    \/ RaceDeleteCached
    \/ RaceSetCache

(***************************************************************************)
(* SpecApprovals: two calls of approveChangelist / revokeApproval on one   *)
(* stored changelist side by side, with setStatus calls in between.  A     *)
(* step is the code between two awaits.  ca is                             *)
(*   status     the status of the changelist's row                         *)
(*   approvals  the approvers that have an approval record                 *)
(*   calls      per call: its operation, its approver, where it stands     *)
(*              (status: before SetStatus took effect, record: before the  *)
(*              approval mapper's call, done), whether a mapper call       *)
(*              failed                                                     *)
(*   direct     the setStatus calls made                                   *)
(***************************************************************************)
MaxDirect == 1

ApprovalCalls == 1..2

ApprovalIdle == ca = [pc |-> "idle"]

\* the changelist is pending without approvals, or approved by u1
ApprovalInit ==
    \E start \in {[status |-> "pending", approvals |-> {}], [status |-> "approved", approvals |-> {"u1"}]},
       ops \in [ApprovalCalls -> {"approveChangelist", "revokeApproval"}],
       approver \in Approvers :
        ca = [pc |-> "running", status |-> start.status, approvals |-> start.approvals,
              calls |-> [i \in ApprovalCalls |->
                            [op |-> ops[i], approver |-> IF i = 1 THEN approver ELSE "u2",
                             pc |-> "status", failed |-> FALSE]],
              direct |-> 0]

\* the status each of the two operations writes
StatusOf(op) == IF op = "approveChangelist" THEN "approved" ELSE "rejected"

\* approvalMapper.Create / approvalMapper.DeleteByChangelist
ApprovalRecords(approvals, op, approver) ==
    IF op = "approveChangelist" THEN approvals \cup {approver} ELSE {}

\* await this.#mapper.SetStatus(changelistID, approver.id, 'approved' | 'rejected'): the
\* Result is dropped
ApprovalSetStatusOf(i) ==
    /\ ca.pc = "running"
    /\ ca.calls[i].pc = "status"
    /\ \E ok \in BOOLEAN :
          ca' = [ca EXCEPT !.calls[i].pc = "record",
                           !.calls[i].failed = ~ok,
                           !.status = IF ok THEN StatusOf(ca.calls[i].op) ELSE @]
    /\ ApprovalFrame

\* return this.#approvalMapper.Create(...) / DeleteByChangelist(changelistID)
ApprovalRecordOf(i) ==
    /\ ca.pc = "running"
    /\ ca.calls[i].pc = "record"
    /\ \E ok \in BOOLEAN :
          ca' = [ca EXCEPT !.calls[i].pc = "done",
                           !.calls[i].failed = @ \/ ~ok,
                           !.approvals = IF ok THEN ApprovalRecords(@, ca.calls[i].op, ca.calls[i].approver)
                                         ELSE @]
    /\ ApprovalFrame

\* setStatus(id, userID, status) by a third caller
ApprovalDirect ==
    /\ ca.pc = "running"
    /\ ca.direct < MaxDirect
    /\ \E status \in Statuses :
          ca' = [ca EXCEPT !.direct = @ + 1, !.status = status]
    /\ ApprovalFrame

ApprovalSetStatus == \E i \in ApprovalCalls : ApprovalSetStatusOf(i)

ApprovalRecord == \E i \in ApprovalCalls : ApprovalRecordOf(i)

ApprovalNext ==
    \/ ApprovalSetStatus
    \/ ApprovalRecord
    \/ ApprovalDirect

(***************************************************************************)
(* The specifications.                                                     *)
(***************************************************************************)
InitBQ == BQInit /\ ResIdle /\ SaveIdle /\ FindIdle /\ ImportIdle /\ ChangelistIdle /\ PopulateIdle /\ QueryIdle /\ SchemaIdle /\ ConcurrentIdle /\ CacheIdle /\ NodeIdle /\ IngestIdle
    /\ RaceIdle /\ ApprovalIdle

SpecBQ == InitBQ /\ [][BQNext]_vars

InitResolver == ResInit /\ BQIdle /\ SaveIdle /\ FindIdle /\ ImportIdle /\ ChangelistIdle /\ PopulateIdle /\ QueryIdle /\ SchemaIdle /\ ConcurrentIdle /\ CacheIdle /\ NodeIdle /\ IngestIdle
    /\ RaceIdle /\ ApprovalIdle

SpecResolver == InitResolver /\ [][ResNext]_vars

InitSave == SaveInit /\ BQIdle /\ ResIdle /\ FindIdle /\ ImportIdle /\ ChangelistIdle /\ PopulateIdle /\ QueryIdle /\ SchemaIdle /\ ConcurrentIdle /\ CacheIdle /\ NodeIdle /\ IngestIdle
    /\ RaceIdle /\ ApprovalIdle

SpecSave == InitSave /\ [][SaveNext]_vars

InitFind == FindInit /\ BQIdle /\ ResIdle /\ SaveIdle /\ ImportIdle /\ ChangelistIdle /\ PopulateIdle /\ QueryIdle /\ SchemaIdle /\ ConcurrentIdle /\ CacheIdle /\ NodeIdle /\ IngestIdle
    /\ RaceIdle /\ ApprovalIdle

SpecFind == InitFind /\ [][FindNext]_vars

InitImport == ImportInit /\ BQIdle /\ ResIdle /\ SaveIdle /\ FindIdle /\ ChangelistIdle /\ PopulateIdle /\ QueryIdle /\ SchemaIdle /\ ConcurrentIdle /\ CacheIdle /\ NodeIdle /\ IngestIdle
    /\ RaceIdle /\ ApprovalIdle

SpecImport == InitImport /\ [][ImportNext]_vars

InitChangelist == ChangelistInit /\ BQIdle /\ ResIdle /\ SaveIdle /\ FindIdle /\ ImportIdle /\ PopulateIdle /\ QueryIdle /\ SchemaIdle /\ ConcurrentIdle /\ CacheIdle /\ NodeIdle /\ IngestIdle
    /\ RaceIdle /\ ApprovalIdle

SpecChangelist == InitChangelist /\ [][ChangelistNext]_vars

InitPopulate == PopulateInit /\ BQIdle /\ ResIdle /\ SaveIdle /\ FindIdle /\ ImportIdle /\ ChangelistIdle /\ QueryIdle /\ SchemaIdle /\ ConcurrentIdle /\ CacheIdle /\ NodeIdle /\ IngestIdle
    /\ RaceIdle /\ ApprovalIdle

SpecPopulate == InitPopulate /\ [][PopulateNext]_vars

InitQuery == QueryInit /\ BQIdle /\ ResIdle /\ SaveIdle /\ FindIdle /\ ImportIdle /\ ChangelistIdle /\ PopulateIdle /\ SchemaIdle /\ ConcurrentIdle /\ CacheIdle /\ NodeIdle /\ IngestIdle
    /\ RaceIdle /\ ApprovalIdle

SpecQuery == InitQuery /\ [][QueryNext]_vars

InitSchema ==
    SchemaInit /\ BQIdle /\ ResIdle /\ SaveIdle /\ FindIdle /\ ImportIdle /\ ChangelistIdle /\ PopulateIdle /\ QueryIdle /\ ConcurrentIdle /\ CacheIdle /\ NodeIdle /\ IngestIdle
    /\ RaceIdle /\ ApprovalIdle

SpecSchema == InitSchema /\ [][SchemaNext]_vars

InitConcurrent ==
    ConcurrentInit /\ BQIdle /\ ResIdle /\ SaveIdle /\ FindIdle /\ ImportIdle /\ ChangelistIdle /\ PopulateIdle /\ QueryIdle
    /\ SchemaIdle /\ CacheIdle /\ NodeIdle /\ IngestIdle
    /\ RaceIdle /\ ApprovalIdle

SpecConcurrent == InitConcurrent /\ [][ConcurrentNext]_vars

InitCache ==
    CacheInit /\ BQIdle /\ ResIdle /\ SaveIdle /\ FindIdle /\ ImportIdle /\ ChangelistIdle /\ PopulateIdle /\ QueryIdle
    /\ SchemaIdle /\ ConcurrentIdle /\ NodeIdle /\ IngestIdle
    /\ RaceIdle /\ ApprovalIdle

SpecCache == InitCache /\ [][CacheNext]_vars

InitNodes ==
    NodeInit /\ BQIdle /\ ResIdle /\ SaveIdle /\ FindIdle /\ ImportIdle /\ ChangelistIdle /\ PopulateIdle /\ QueryIdle
    /\ SchemaIdle /\ ConcurrentIdle /\ CacheIdle /\ IngestIdle /\ RaceIdle /\ ApprovalIdle

SpecNodes == InitNodes /\ [][NodeNext]_vars

SpecBatch == InitNodes /\ [][BatchNext]_vars

InitIngest ==
    IngestInit /\ BQIdle /\ ResIdle /\ SaveIdle /\ FindIdle /\ ImportIdle /\ ChangelistIdle /\ PopulateIdle /\ QueryIdle
    /\ SchemaIdle /\ ConcurrentIdle /\ CacheIdle /\ NodeIdle /\ RaceIdle /\ ApprovalIdle

SpecIngest == InitIngest /\ [][IngestNext]_vars

InitRace ==
    RaceInit /\ BQIdle /\ ResIdle /\ SaveIdle /\ FindIdle /\ ImportIdle /\ ChangelistIdle /\ PopulateIdle /\ QueryIdle
    /\ SchemaIdle /\ ConcurrentIdle /\ CacheIdle /\ NodeIdle /\ IngestIdle /\ ApprovalIdle

SpecRace == InitRace /\ [][RaceNext]_vars

InitApprovals ==
    ApprovalInit /\ BQIdle /\ ResIdle /\ SaveIdle /\ FindIdle /\ ImportIdle /\ ChangelistIdle /\ PopulateIdle /\ QueryIdle
    /\ SchemaIdle /\ ConcurrentIdle /\ CacheIdle /\ NodeIdle /\ IngestIdle /\ RaceIdle

SpecApprovals == InitApprovals /\ [][ApprovalNext]_vars

(***************************************************************************)
(* The claims.                                                             *)
(***************************************************************************)
\* the first space-delimited token of s, and what follows the first space
FirstToken(s) == IF FirstSpace(s) = 0 THEN s ELSE SubSeq(s, 1, FirstSpace(s) - 1)
AfterFirstSpace(s) == IF FirstSpace(s) = 0 THEN <<>> ELSE SubSeq(s, FirstSpace(s) + 1, Len(s))

\* C1: breakQuery of a filter string whose first space-delimited token is one of
\* eq, neq, like, in, <, > is that token and the rest of the string after the first
\* space, unchanged; of any other string it is 'eq' and the whole string.
C1_BreakQuery ==
    bq_pc = "done" =>
        bq_result = IF FirstToken(bq_query) \in Operators
                    THEN <<FirstToken(bq_query), AfterFirstSpace(bq_query)>>
                    ELSE <<EqOperator, bq_query>>

\* 'like a  b' is broken into 'like' and 'a  b', both spaces of the value kept
C1_Witness ==
    /\ bq_pc = "done"
    /\ bq_query = <<"l", "i", "k", "e", " ", "a", " ", " ", "b">>
    /\ bq_result = << <<"l", "i", "k", "e">>, <<"a", " ", " ", "b">> >>

ZeroEdges ==
    /\ res_input._relationship.present
    /\ res_edges.kind = "list"
    /\ Len(res_edges.rows) = 0

RepositoryCallFailed == res_edges.kind = "error" \/ res_results.kind = "error"

\* C3: whichever repository call of the resolver fails (the node list or the edge
\* lookup, by a failure Result or by a rejected promise), the resolver's promise is
\* fulfilled with the empty list, and the rows of a failed result are never reshaped.
C3_FailureGivesEmptyList ==
    (res_pc = "done" /\ RepositoryCallFailed) =>
        /\ res_promise = "fulfilled"
        /\ res_value.kind = "list"
        /\ Len(res_value.rows) = 0
        /\ \A i \in 1..Len(res_reshaped) : res_reshaped[i] # "failure"

Calls(op) == Cardinality({i \in 1..Len(sv.log) : sv.log[i].op = op})

BulkOperations == {"BulkDelete", "BulkUpdate", "BulkCreate"}

\* a transformation failed validation, or a bulk call of transformations failed
TransformationWriteFailed ==
    \E i \in 1..Len(sv.log) :
        /\ sv.log[i].op \in BulkOperations \cup {"validationErrors"}
        /\ ~sv.log[i].ok

\* C4: whenever, in a save, a transformation fails validation or a bulk delete, update
\* or create of transformations fails, the transaction of that save is rolled back (none
\* of its writes is persisted or left pending) and save returns a failure, on the update
\* and on the create path, whether save opened the transaction or the caller passed it.
C4_FailedSaveRolledBack ==
    (sv.pc = "done" /\ sv.call = "save" /\ TransformationWriteFailed) =>
        /\ sv.result = "failure"
        /\ sv.txn = "rolledback"
        /\ sv.pending = {}
        /\ sv.db = {}

OwnTransaction == sv.internal \/ sv.stInternal

\* C5: a transaction that save or saveTransformations opened itself is ended when the
\* call returns: rolled back whenever the call fails (a failed commit included), and
\* committed exactly once, as the last mapper call, when it succeeds; the
\* saveTransformations call that save makes never opens or commits a transaction.
C5_OwnTransactionEnded ==
    /\ (sv.pc # "idle" /\ sv.call = "save") => ~sv.stInternal
    /\ (sv.pc = "done" /\ OwnTransaction) =>
          /\ sv.txn \in {"committed", "rolledback"}
          /\ sv.result = "failure" => sv.txn = "rolledback"
          /\ sv.result = "success" =>
                /\ sv.txn = "committed"
                /\ Cardinality({i \in 1..Len(sv.log) :
                                  sv.log[i].op = "completeTransaction" /\ sv.log[i].ok}) = 1
                /\ sv.log[Len(sv.log)].op = "completeTransaction"
                /\ sv.log[Len(sv.log)].ok

\* the three sets of one save, read off the mapping as it was passed in
Removed == sv.passed.removed
Updated == SelectSeq(sv.passed.transformations, LAMBDA x : x.id # 0)
Created == SelectSeq(sv.passed.transformations, LAMBDA x : x.id = 0)

IDSet(l) == {l[i].id : i \in 1..Len(l)}

CallOf(op) == sv.log[CHOOSE i \in 1..Len(sv.log) : sv.log[i].op = op]

C6_OnlyFullyLoadedCached ==
    fd.pc # "idle" =>
        /\ \A i \in 1..Len(fd.sets) :
              fd.sets[i].ok =>
                 /\ fd.sets[i].load
                 /\ fd.sets[i].loaded
                 /\ fd.sets[i].value.transformations = StoredTransformations
        /\ (fd.pc = "done" /\ fd.result.cached) =>
              fd.result.value.transformations = StoredTransformations

\* C6 is stated above; the claims about importToDataSource and prepareForImport follow.

Returned == im.pc = "returned"

\* the result at position i is the one of the i-th mapping, and says how its own save ended
OwnResult(i) ==
    /\ im.returned[i].isError = (im.wf[i].outcome # "success")
    /\ im.returned[i].value.shape_hash = im.original[i].shape_hash
    /\ im.wf[i].saves = 1

\* C8 (as amended): when the target data source can be retrieved, importToDataSource
\* returns exactly one Result per input mapping, in input order; save was called once for
\* every mapping, and the result of mapping i is a failure exactly when its own save
\* failed, whatever happened to the others.  When the target data source cannot be
\* retrieved it returns a single failure Result, whatever the number of mappings.
C8_OneResultPerMapping ==
    Returned =>
        IF im.retrieved
        THEN /\ Len(im.returned) = Len(im.original)
             /\ \A i \in 1..Len(im.original) : OwnResult(i)
        ELSE /\ Len(im.returned) = 1
             /\ im.returned[1].isError

\* two mappings, the second finished first and succeeded, the first failed
C8_Witness ==
    /\ Returned
    /\ im.retrieved
    /\ Len(im.original) = 2
    /\ im.finished = <<2, 1>>
    /\ im.returned[1].isError
    /\ ~im.returned[2].isError

\* C8 (as stated): importToDataSource returns exactly one Result per input mapping, in
\* input order, each saying how the save of its own mapping ended.
C8_AlwaysOneResultPerMapping ==
    Returned =>
        /\ Len(im.returned) = Len(im.original)
        /\ \A i \in 1..Len(im.original) : im.retrieved => OwnResult(i)

\* the fields C9 names have in v the values they have in o
SameIdentity(v, o) ==
    /\ v.id = o.id
    /\ v.data_source_id = o.data_source_id
    /\ v.container_id = o.container_id
    /\ v.active = o.active
    /\ v.created_at = o.created_at /\ v.created_by = o.created_by
    /\ v.modified_at = o.modified_at /\ v.modified_by = o.modified_by
    /\ Len(v.transformations) = Len(o.transformations)
    /\ \A j \in 1..Len(o.transformations) : v.transformations[j].id = o.transformations[j].id

\* C9: when the save of a mapping fails inside importToDataSource, the failure Result of
\* that mapping carries the mapping as it was before the call: id, data_source_id,
\* container_id, active, audit fields and transformation ids are the original ones.
C9_FailureCarriesOriginal ==
    (Returned /\ im.retrieved) =>
        \A i \in 1..Len(im.original) :
            im.returned[i].isError => SameIdentity(im.returned[i].value, im.original[i])

AuditCleared(x) ==
    /\ x.created_at = Undefined /\ x.created_by = Undefined
    /\ x.modified_at = Undefined /\ x.modified_by = Undefined

\* what prepareForImport leaves of a transformation t that was o
TransformationPrepared(t, o, separateContainer) ==
    /\ t.id = Undefined
    /\ t.type_mapping_id = Undefined
    /\ t.container_id = Undefined
    /\ t.data_source_id = Undefined
    /\ t.shape_hash = Undefined
    /\ AuditCleared(t)
    /\ Len(t.keys) = Len(o.keys)
    /\ IF separateContainer
       THEN /\ t.metatype_id = Undefined
            /\ t.metatype_relationship_pair_id = Undefined
            /\ \A j \in 1..Len(t.keys) :
                  /\ t.keys[j].metatype_key_id = Undefined
                  /\ t.keys[j].metatype_relationship_key_id = Undefined
       ELSE /\ t.metatype_id = o.metatype_id
            /\ t.metatype_relationship_pair_id = o.metatype_relationship_pair_id
            /\ \A j \in 1..Len(t.keys) :
                  /\ t.keys[j].metatype_key_id = o.keys[j].metatype_key_id
                  /\ t.keys[j].metatype_relationship_key_id = o.keys[j].metatype_relationship_key_id

\* what prepareForImport leaves of a mapping m that was o, its shape hash aside
MappingPrepared(m, o, separateContainer) ==
    /\ m.id = Undefined
    /\ m.data_source_id = Undefined
    /\ AuditCleared(m)
    /\ m.container_id = (IF separateContainer THEN Undefined ELSE o.container_id)
    /\ Len(m.transformations) = Len(o.transformations)
    /\ \A j \in 1..Len(o.transformations) :
          TransformationPrepared(m.transformations[j], o.transformations[j], separateContainer)

\* prepareForImport has returned for the i-th mapping and nothing else has touched it
JustPrepared(i) == im.pc = "running" /\ im.wf[i].pc = "retarget"

\* C10 (as amended): after prepareForImport(mapping, separateContainer) returns, id,
\* data_source_id, created_at/by and modified_at/by are unset on the mapping and its shape
\* hash is left as it was; id, type_mapping_id, container_id, data_source_id, shape_hash
\* and the audit fields are unset on every transformation; with separateContainer true the
\* mapping's container_id, every transformation's metatype_id and
\* metatype_relationship_pair_id and every key's metatype_key_id and
\* metatype_relationship_key_id are unset too, with separateContainer false they are
\* left unchanged.
C10_PreparedKeepsShapeHash ==
    im.pc = "running" =>
        \A i \in 1..Len(im.wf) :
            JustPrepared(i) =>
                /\ MappingPrepared(im.mappings[i], im.original[i], im.wf[i].separate)
                /\ im.mappings[i].shape_hash = im.original[i].shape_hash

\* two mappings with a transformation each have just been prepared, one for another
\* container and one for the same
C10_Witness ==
    /\ im.pc = "running"
    /\ Len(im.wf) = 2
    /\ JustPrepared(1) /\ JustPrepared(2)
    /\ im.wf[1].separate /\ ~im.wf[2].separate
    /\ Len(im.mappings[1].transformations) = 1
    /\ Len(im.mappings[2].transformations) = 1

\* C10 (as stated): as above, but the shape hash of the mapping is unset as well.
C10_PreparedClearsShapeHash ==
    im.pc = "running" =>
        \A i \in 1..Len(im.wf) :
            JustPrepared(i) =>
                /\ MappingPrepared(im.mappings[i], im.original[i], im.wf[i].separate)
                /\ im.mappings[i].shape_hash = Undefined

\* save has been called for the i-th mapping
HandedToSave(i) == im.wf[i].saves > 0

\* the i-th mapping came from another container and its import succeeded
ImportedAcross(i) == im.wf[i].separate /\ im.results[i].set /\ ~im.results[i].isError

\* C11: every mapping importToDataSource hands to save has active = false, the target
\* data source's id and container, and no id; after a successful import into another
\* container neither the old id nor the old container_id is in the resulting mapping.
C11_HandedMappingRetargeted ==
    im.pc \in {"running", "returned"} =>
        \A i \in 1..Len(im.wf) :
            /\ HandedToSave(i) =>
                  /\ im.wf[i].handed.active = FALSE
                  /\ im.wf[i].handed.data_source_id = TargetSource.id
                  /\ im.wf[i].handed.container_id = TargetSource.container_id
                  /\ im.wf[i].handed.id = Undefined
            /\ ImportedAcross(i) =>
                  LET r == im.results[i].value
                      o == im.original[i]
                  IN  /\ r.id \notin {o.id, Undefined}
                      /\ r.container_id # o.container_id
                      /\ \A j \in 1..Len(r.transformations) :
                            /\ r.transformations[j].id # o.transformations[j].id
                            /\ r.transformations[j].type_mapping_id # o.id
                            /\ r.transformations[j].container_id # o.container_id

\* a mapping with a transformation was imported from another container
C11_Witness ==
    /\ im.pc = "returned"
    /\ im.retrieved
    /\ \E i \in 1..Len(im.wf) :
          /\ HandedToSave(i)
          /\ ImportedAcross(i)
          /\ Len(im.original[i].transformations) = 1
          /\ im.original[i].container_id = "c1"

\* the call named has returned and no other has begun
ReturnedFrom(name) == cl.pc = "between" /\ cl.op.name = name

\* nothing of the changelist differs from what it was when the call began
ChangelistUntouched == cl.stored = cl.op.stored /\ cl.approvals = cl.op.approvals

\* C12: approveChangelist is all-or-nothing: either the status is 'approved' and exactly
\* one approval record of the approver was added, or neither the status nor the approval
\* records changed; never a status set without a record or a record without the status.
C12_ApproveAllOrNothing ==
    ReturnedFrom("approveChangelist") =>
        \/ /\ ~cl.result.isError
           /\ cl.stored.status = "approved"
           /\ cl.approvals = Append(cl.op.approvals, cl.op.arg)
        \/ /\ cl.result.isError
           /\ ChangelistUntouched

\* C13: when revokeApproval returns success the status is 'rejected' and no approval
\* record of the changelist remains; when it returns failure neither the status nor the
\* approval records have changed.
C13_RevokeAllOrNothing ==
    ReturnedFrom("revokeApproval") =>
        IF cl.result.isError
        THEN ChangelistUntouched
        ELSE cl.stored.status = "rejected" /\ cl.approvals = <<>>

\* C14: under every sequence of setStatus, approveChangelist, revokeApproval and save,
\* 'applied' is terminal, 'approved' is reached only from 'pending', and 'applied' is
\* reached only from 'approved' or 'ready'.
C14_StatusStateMachine ==
    [][(cl.pc # "idle" /\ cl.stored.exists) =>
          LET from == cl.stored.status
              to == cl'.stored.status
          IN  /\ from = "applied" => to = "applied"
              /\ (to = "approved" /\ from # "approved") => from = "pending"
              /\ (to = "applied" /\ from # "applied") => from \in {"approved", "ready"}]_vars

\* C15: a save of a record that has an id does not run populateChangelist, and the stored
\* payload after it equals the stored payload before it.
C15_UpdateKeepsPayload ==
    (ReturnedFrom("save") /\ cl.op.arg = "update") =>
        /\ ~cl.op.populated
        /\ cl.stored.changelist = cl.op.stored.changelist

\* the rows of the container that the record's base version names: those of that version,
\* or those of the current ontology when no base version is set
OfBaseVersion(changelist, rows) ==
    { r \in rows :
        /\ r.container_id = changelist.container_id
        /\ r.ontology_version = (IF changelist.base_ontology_version_id = Undefined
                                 THEN NullVersion
                                 ELSE changelist.base_ontology_version_id) }

\* C16: populateChangelist selects the same ontology version for all three reads: the base
\* version when it is set, the current ontology (rows without version) when it is not;
\* the payload holds the full result of the three reads.
C16_SameVersionForAllReads ==
    (pop.pc = "returned" /\ ~pop.result.isError) =>
        \A k \in Kinds :
            pop.changelist.changelist[k] = OfBaseVersion(pop.changelist, pop.rows)

\* C17: every list and count query of a ChangelistRepository instance, the second and later
\* ones and those after a count included, selects only the lightweight columns (or the
\* count) and never the changelist payload column.
C17_PayloadNeverSelected ==
    rq.pc = "ready" =>
        \A i \in 1..Len(rq.issued) :
            rq.issued[i].select \in {LightweightSelect, CountSelect}

\* C18: ForContainer aborts on a failed ontology read: a failed metatype read is returned
\* without the pair read being made, a failed pair read is returned; in both cases no
\* schema object is built and no resolver is created.
C18_AbortOnFailedRead ==
    (sg.pc # "idle" /\ sg.failed # "none") =>
        /\ sg.pc = "returned"
        /\ sg.result = "failure"
        /\ sg.failed = "metatypes" => sg.reads = <<"metatypes">>
        /\ sg.failed = "pairs" => sg.reads = <<"metatypes", "pairs">>
        /\ ~sg.built
        /\ sg.fields = NoFields
        /\ sg.types = <<>>
        /\ sg.resolvers = 0

\* the pair read of a container of two metatypes failed
C18_Witness ==
    /\ sg.pc = "returned"
    /\ sg.failed = "pairs"
    /\ Len(sg.metatypes) = 2

\* the schema type the spec gives a data type
ExpectedKind ==
    [number |-> "Float", boolean |-> "Boolean", string |-> "String", date |-> "String",
     file |-> "String", list |-> "List of JSON", enumeration |-> "Enum"]

\* the type t is the one expected for the key
AsDeclared(t, key) ==
    /\ t.kind = ExpectedKind[key.data_type]
    /\ key.data_type = "enumeration" => t.values = key.options

\* C19: for every metatype key the generated type, as output field and as filter argument,
\* is determined by its data_type: number -> float, boolean -> boolean, string, date and
\* file -> string, list -> list of JSON, enumeration -> an enum whose values are exactly
\* the key's options.
C19_TypeByDataType ==
    (sg.pc # "idle" /\ sg.built) =>
        \A i \in 1..Len(sg.metatypes) :
            LET metatype == sg.metatypes[i]
                field == sg.fields[stringToValidPropertyName(metatype.name)]
            IN  \A j \in 1..Len(metatype.keys) :
                    LET key == metatype.keys[j]
                        p == stringToValidPropertyName(key.property_name)
                    IN  key.data_type \in DataTypes =>
                            /\ AsDeclared(field.output[p], key)
                            /\ AsDeclared(field.args[p], key)

\* a schema was generated for a metatype with a date key and an enumeration key
C19_Witness ==
    /\ sg.pc = "returned"
    /\ sg.result = "success"
    /\ \E i \in 1..Len(sg.metatypes) :
          /\ Len(sg.metatypes[i].keys) = 2
          /\ sg.metatypes[i].keys[1].data_type = "date"
          /\ sg.metatypes[i].keys[2].data_type = "enumeration"
          /\ sg.metatypes[i].keys[2].options = {"x", "y"}

\* the names of the generated enum types
EnumTypeNames == SelectSeq(sg.types, LAMBDA n : n[Len(n)] \in {"Enum_TypeA", "Enum_Type_B"})

\* C20: the names of the generated enum types are pairwise distinct: two different
\* (metatype, enumeration key) pairs, and the input and output enum of one pair, get
\* different names, also when metatype or key names contain '_'.
C20_EnumNamesDistinct ==
    (sg.pc # "idle" /\ sg.built) => UniquelyNamed(EnumTypeNames)

\* the parts of a pair's name as the table has them
PairOrigin(pair) == stringToValidPropertyName(SplitOn(pair.name, PairSeparator)[1])
PairRelationship(pair) == stringToValidPropertyName(SplitOn(pair.name, PairSeparator)[2])
PairDestination(pair) == stringToValidPropertyName(SplitOn(pair.name, PairSeparator)[3])

\* the entries of a grouping table, as (metatype, relationship, other metatype)
TableEntries(table) ==
    UNION { UNION { { <<o, r, d>> : d \in DOMAIN table[o][r] } : r \in DOMAIN table[o] } :
            o \in DOMAIN table }

\* the entries the pairs ask for: one forward and one reverse entry per pair
PairEntries(pairs) ==
    UNION { { <<PairOrigin(pairs[i]), PairRelationship(pairs[i]), PairDestination(pairs[i])>>,
              <<PairDestination(pairs[i]), PairRelationship(pairs[i]), PairOrigin(pairs[i])>> } :
            i \in 1..Len(pairs) }

PairOf(metatype, pair) ==
    \/ SplitOn(pair.name, PairSeparator)[1] = metatype.name
    \/ SplitOn(pair.name, PairSeparator)[3] = metatype.name

\* the metatype at the other end of a pair of metatype
OtherEnds(metatype, pair) ==
    (IF SplitOn(pair.name, PairSeparator)[1] = metatype.name THEN {PairDestination(pair)} ELSE {}) \cup
    (IF SplitOn(pair.name, PairSeparator)[3] = metatype.name THEN {PairOrigin(pair)} ELSE {})

\* C22: for every metatype M of the container and every pair in which M is origin or
\* destination, the _relationship input type of M's query field has a field for the
\* pair's relationship and a destination flag for the metatype at the other end, also
\* when the sanitizer changes M's name.
C22_RelationshipInputCoversPairs ==
    (sg.pc # "idle" /\ sg.built) =>
        \A i \in 1..Len(sg.metatypes) : \A j \in 1..Len(sg.pairs) :
            LET metatype == sg.metatypes[i]
                pair == sg.pairs[j]
                field == sg.fields[stringToValidPropertyName(metatype.name)]
            IN  PairOf(metatype, pair) =>
                    /\ PairRelationship(pair) \in DOMAIN field.relationship
                    /\ OtherEnds(metatype, pair) \subseteq DOMAIN field.destination

\* the same for the metatypes whose name the sanitizer leaves as it is
C22_UnchangedNamesCovered ==
    (sg.pc # "idle" /\ sg.built) =>
        \A i \in 1..Len(sg.metatypes) : \A j \in 1..Len(sg.pairs) :
            LET metatype == sg.metatypes[i]
                pair == sg.pairs[j]
                field == sg.fields[stringToValidPropertyName(metatype.name)]
            IN  (PairOf(metatype, pair) /\ stringToValidPropertyName(metatype.name) = metatype.name) =>
                    /\ PairRelationship(pair) \in DOMAIN field.relationship
                    /\ OtherEnds(metatype, pair) \subseteq DOMAIN field.destination

\* the node takes part in an edge of the selected relationship between metatype and the
\* selected metatype, at either end
TakesPart(row, metatype, relationship, other) ==
    \E i \in 1..Len(EdgeRows) :
        LET e == EdgeRows[i]
        IN  /\ stringToValidPropertyName(e.relationship_name) = relationship
            /\ \/ /\ e.origin_id = row.id
                  /\ e.origin_metatype_name = metatype.name
                  /\ e.destination_metatype_name = other
               \/ /\ e.destination_id = row.id
                  /\ e.destination_metatype_name = metatype.name
                  /\ e.origin_metatype_name = other

\* the nodes of the metatype that pass the other filters and take part in a matching edge
RelatedNodes(input) ==
    SelectSeq(ListNodes(ScopePredicates(ContainerID, Pump) \o RecordPredicates(input._record)
                           \o PropertyPredicates(Pump, input.properties)),
              LAMBDA row : TakesPart(row, Pump, input._relationship.relationship,
                                     input._relationship.destination))

\* C23: a _relationship filter works in both directions: whether the metatype is the
\* origin or the destination of the selected pair, the node query returns its nodes that
\* take part in matching edges.
C23_BothDirections ==
    (res_pc = "done" /\ res_input._relationship.present /\ res_results.kind = "list") =>
        res_results.rows = RelatedNodes(res_input)

\* the same when the metatype is the origin of the selected pair
C23_ForwardDirection ==
    (/\ res_pc = "done"
     /\ res_input._relationship.present
     /\ res_input._relationship.relationship # <<"g">>
     /\ res_results.kind = "list") =>
        res_results.rows = RelatedNodes(res_input)

\* filter strings '<operator> <value>' and what they stand for
OperatorFilters ==
    { [text |-> <<">", " ", "1", "0">>, operator |-> <<">">>, value |-> <<"1", "0">>],
      [text |-> <<"n", "e", "q", " ", "x">>, operator |-> <<"n", "e", "q">>, value |-> <<"x">>],
      [text |-> <<"1", "0">>, operator |-> EqOperator, value |-> <<"1", "0">>] }

\* the argument type takes the filter string, and the resolver's breakQuery gets the
\* filter's operator and value from what it is handed
ReachesResolver(type, filter) ==
    LET argument == coerceArgument(type, filter.text)
    IN  /\ argument.ok
        /\ breakQuery(StringOf(argument.value)) = <<filter.operator, filter.value>>

\* C24: every metatype key is exposed as a filter argument that accepts a string
\* '<operator> <value>' (operator optional), whatever its data type, and the string
\* reaches the resolver as that operator and value.
C24_FilterStringAccepted ==
    (sg.pc # "idle" /\ sg.built) =>
        \A i \in 1..Len(sg.metatypes) :
            LET metatype == sg.metatypes[i]
                field == sg.fields[stringToValidPropertyName(metatype.name)]
            IN  \A j \in 1..Len(metatype.keys) :
                    LET p == stringToValidPropertyName(metatype.keys[j].property_name)
                    IN  /\ p \in DOMAIN field.args
                        /\ \A filter \in OperatorFilters : ReachesResolver(field.args[p], filter)

\* the same for the keys whose data type is not number, boolean or enumeration
C24_StringTypedKeysAccept ==
    (sg.pc # "idle" /\ sg.built) =>
        \A i \in 1..Len(sg.metatypes) :
            LET metatype == sg.metatypes[i]
                field == sg.fields[stringToValidPropertyName(metatype.name)]
            IN  \A j \in 1..Len(metatype.keys) :
                    LET p == stringToValidPropertyName(metatype.keys[j].property_name)
                    IN  metatype.keys[j].data_type \notin {"number", "boolean", "enumeration"} =>
                            /\ p \in DOMAIN field.args
                            /\ \A filter \in OperatorFilters : ReachesResolver(field.args[p], filter)

\* the predicates of a query on the field
On(predicates, field) == SelectSeq(predicates, LAMBDA p : p.field = field)

\* C25: every node query the resolver of metatype M in container X executes carries the
\* predicates container_id = X and metatype_id = M.id, whatever the arguments are; no
\* later predicate replaces or drops them, and the rows returned are nodes of M in X.
C25_ScopeKept ==
    /\ \A i \in 1..Len(res_listed) :
          /\ On(res_listed[i].predicates, "container_id") = <<Predicate("container_id", EqOperator, ContainerID)>>
          /\ On(res_listed[i].predicates, "metatype_id") = <<Predicate("metatype_id", EqOperator, Pump.id)>>
    /\ res_results.kind = "list" =>
          \A i \in 1..Len(res_results.rows) :
              /\ res_results.rows[i].container_id = ContainerID
              /\ res_results.rows[i].metatype_id = Pump.id

\* a query with a _record filter, a _relationship filter whose edges were found and a
\* property filter was executed and returned a row
C25_Witness ==
    /\ res_pc = "done"
    /\ res_input._record.present
    /\ res_input._record.data_source_id # NoFilter
    /\ res_input._relationship.present
    /\ res_edges.kind = "list"
    /\ Len(res_edges.rows) > 0
    /\ Len(res_input.properties) > 0
    /\ Len(res_listed) = 1
    /\ res_results.kind = "list"
    /\ Len(res_results.rows) > 0

\* the key of the metatype that is exposed under the argument name
KeyOfArgument(metatype, name) ==
    metatype.keys[CHOOSE k \in 1..Len(metatype.keys) : metatype.keys[k].sanitized = name]

\* C26: for every argument key other than _record and _relationship the resolver adds
\* exactly one property predicate, in the order of the arguments: its name is the key's
\* real property_name, its operator and value come from breakQuery of the argument, its
\* data type is the key's data_type; _record and _relationship add no property predicate.
C26_PropertyPredicates ==
    \A i \in 1..Len(res_listed) :
        LET properties == On(res_listed[i].predicates, "property")
        IN  /\ Len(properties) = Len(res_input.properties)
            /\ \A j \in 1..Len(properties) :
                  LET arg == res_input.properties[j]
                      key == KeyOfArgument(Pump, arg.key)
                  IN  /\ properties[j].name = key.property_name
                      /\ properties[j].op = breakQuery(arg.value)[1]
                      /\ properties[j].value = breakQuery(arg.value)[2]
                      /\ properties[j].data_type = key.data_type

\* a query with _record, _relationship and a filter on the key 'serial no', whose
\* argument is named serial_no, was executed
C26_Witness ==
    /\ res_pc = "done"
    /\ Len(res_listed) = 1
    /\ res_input._record.present
    /\ res_input._record.import_id # NoFilter
    /\ res_input._relationship.present
    /\ Len(res_input.properties) = 2
    /\ res_input.properties[2].key = "serial_no"
    /\ res_input.properties[2].value = <<"n", "e", "q", " ", "5">>

\* C27: every resolver execution issues exactly one node list call, with limit 10000
\* whatever _record.limit and _record.page are, and the resolver's promise is settled only
\* after that call has completed, with the complete reshaped list.
C27_OneListCallThenSettled ==
    /\ Len(res_listed) <= 1
    /\ res_promise # "pending" => res_results.kind # "undefined"
    /\ res_pc = "done" =>
          /\ Len(res_listed) = 1
          /\ res_listed[1].limit = ListLimit
          /\ res_promise = "fulfilled"
          /\ res_results.kind = "list"
          /\ res_value = ListValue(ReshapeAll(res_results.rows))

\* the same for the executions in which no repository call fails
C27_WithoutFailure ==
    /\ Len(res_listed) <= 1
    /\ (res_promise # "pending" /\ ~RepositoryCallFailed /\ ~BreakQueryThrows(res_input._record))
          => res_results.kind # "undefined"
    /\ (res_pc = "done" /\ ~RepositoryCallFailed /\ ~BreakQueryThrows(res_input._record)) =>
          /\ Len(res_listed) = 1
          /\ res_listed[1].limit = ListLimit
          /\ res_promise = "fulfilled"
          /\ res_results.kind = "list"
          /\ res_value = ListValue(ReshapeAll(res_results.rows))

\* the properties of a node that are not named as the reserved _record entry is
OwnProperties(node) == { n \in DOMAIN node.properties : Sanitize(n) # "_record" }

\* C28: the resolver's output is a reshaping of the returned rows: one entry per node, in
\* the order the repository returned them; each entry's _record holds that node's id,
\* data_source_id, original_id, import_id, metatype_id, metatype_name, metadata and
\* timestamps, and a node property never replaces the _record substructure; the output
\* is the same function of arguments and graph on every execution.
C28_DeterministicReshape ==
    (res_pc = "done" /\ res_results.kind = "list") =>
        /\ res_results.rows = ListNodes(res_listed[1].predicates)
        /\ res_value.kind = "list"
        /\ Len(res_value.rows) = Len(res_results.rows)
        /\ \A i \in 1..Len(res_results.rows) :
              LET node == res_results.rows[i]
                  entry == res_value.rows[i]
              IN  /\ DOMAIN entry = {Sanitize(n) : n \in DOMAIN node.properties} \cup {"_record"}
                  /\ entry["_record"] =
                        [kind |-> "record", id |-> node.id, data_source_id |-> node.data_source_id,
                         original_id |-> node.original_data_id, import_id |-> node.import_data_id,
                         metatype_id |-> node.metatype_id, metatype_name |-> node.metatype_name,
                         metadata |-> node.metadata,
                         created_at |-> [iso |-> node.created_at.time], created_by |-> node.created_by,
                         modified_at |-> [iso |-> node.modified_at.time], modified_by |-> node.modified_by]
                  /\ \A n \in OwnProperties(node) :
                        entry[Sanitize(n)] = [kind |-> "property", value |-> node.properties[n]]

\* two rows were returned and reshaped, the second of a node with a property named _record
C28_Witness ==
    /\ res_pc = "done"
    /\ res_value.kind = "list"
    /\ Len(res_value.rows) = 2
    /\ res_results.rows[1].id = 1
    /\ res_results.rows[2].id = 2
    /\ "_record" \in DOMAIN res_results.rows[2].properties

\* the predicates that come from the arguments of one invocation alone
OwnPredicates(proc) ==
    ScopePredicates(ContainerID, proc.metatype)
    \o RecordPredicates(proc.input._record)
    \o (IF proc.input._relationship.present
        THEN RelationshipPredicates(FindByRelationship(proc.metatype.name,
                                        ReplaceUnderscore(proc.input._relationship.relationship),
                                        proc.input._relationship.destination))
        ELSE <<>>)
    \o PropertyPredicates(proc.metatype, proc.input.properties)

\* C29: field resolutions running at the same time share no mutable query state: under
\* every interleaving at the awaits the predicates of the node query one resolution
\* executes are those derived from its own arguments, and its rows those of that query.
C29_NoSharedQueryState ==
    cr.pc # "idle" =>
        \A i \in 1..2 :
            /\ Len(cr.procs[i].listed) > 0 => cr.procs[i].listed[1].predicates = OwnPredicates(cr.procs[i])
            /\ cr.procs[i].value.kind = "list" =>
                  cr.procs[i].value.rows = ReshapeAll(ListNodes(OwnPredicates(cr.procs[i])))

\* two resolutions with _relationship filters, of different metatypes, ran interleaved: the
\* second began and made its node query while the first was waiting for its edges
C29_Witness ==
    /\ cr.pc # "idle"
    /\ cr.procs[1].metatype # cr.procs[2].metatype
    /\ cr.procs[1].pc = "done"
    /\ cr.procs[2].pc = "done"
    /\ cr.trace = << <<1, "begin">>, <<2, "begin">>, <<2, "edges">>, <<1, "edges">>, <<2, "list">>, <<1, "list">> >>

\* what a call returns and leaves stored when the cache works and is empty: the outcome
\* of its mapper calls alone
WithEmptyCache(call, load, hasID, mapper) ==
    CASE call \in {"findByID", "findByShapeHash"} ->
            [result |-> IF ~mapper.ok THEN [isError |-> TRUE, value |-> "none"]
                        ELSE IF load /\ mapper.listed
                             THEN [isError |-> FALSE, value |-> "stored mapping with transformations"]
                             ELSE [isError |-> FALSE, value |-> "stored mapping"],
             db |-> "stored"]
      [] call = "save" ->
            [result |-> [isError |-> ~mapper.ok, value |-> IF mapper.ok THEN "true" ELSE "none"],
             db |-> IF mapper.ok THEN "updated" ELSE "stored"]
      [] call = "delete" ->
            [result |-> [isError |-> ~(hasID /\ mapper.ok),
                         value |-> IF hasID /\ mapper.ok THEN "true" ELSE "none"],
             db |-> IF hasID /\ mapper.ok THEN "deleted" ELSE "stored"]

C30_SaveWitness ==
    /\ cc.pc = "done"
    /\ cc.call = "save"
    /\ cc.hasID
    /\ cc.failures = <<"delete", "delete">>
    /\ cc.db = "updated"

\* the statements of the last CreateOrUpdate that took the create path
CreatesRan == { ns.ran[i].n : i \in {k \in 1..Len(ns.ran) : ns.ran[k].kind = "create"} }

HasPair(n) == n.original_data_id # "" /\ n.data_source_id # ""

RowsOfPair(rows, n) ==
    { r \in rows : r.original_data_id = n.original_data_id /\ r.data_source_id = n.data_source_id }

\* C31: no two rows of the nodes table carry the same (original_data_id, data_source_id),
\* and a CreateOrUpdate whose nodes all take the create path succeeds whenever the database
\* is up: a node whose pair a row already carried leaves that row in place, under its old
\* id and with the new properties, and adds no second row.
C31_OneNodePerPair ==
    ns.pc = "ready" =>
        /\ \A r1, r2 \in ns.store :
              HasPair(r1) /\ RowsOfPair({r2}, r1) # {} => r1 = r2
        /\ ns.op = "CreateOrUpdate" /\ ns.db /\ ns.ran # <<>> /\ Cardinality(CreatesRan) = Len(ns.input)
              => /\ ~ns.result.isError
                 /\ \A n \in CreatesRan :
                       HasPair(n) =>
                          /\ Cardinality(RowsOfPair(ns.store, n)) = 1
                          /\ \A r \in RowsOfPair(ns.store, n) : r.properties = n.properties
                          /\ \A old \in RowsOfPair(ns.before, n) :
                                \E r \in RowsOfPair(ns.store, n) : r.id = old.id

\* a create for a pair that a row carried has returned
C31_Witness ==
    /\ ns.pc = "ready" /\ ns.op = "CreateOrUpdate" /\ ~ns.result.isError
    /\ \E n \in CreatesRan : HasPair(n) /\ RowsOfPair(ns.before, n) # {}
    /\ Cardinality(ns.store) = Cardinality(ns.before)

\* C32: Archive keeps the row and marks it archived, PermanentlyDelete removes the row, and
\* no read (Retrieve, DomainRetrieve, RetrieveByOriginalID, List, ListByMetatypeID) returns
\* an archived row.
C32_ArchivedHiddenDeletedGone ==
    ns.pc = "ready" =>
        /\ \A r \in ns.returned : ~r.archived
        /\ ns.op = "Archive" /\ ~ns.result.isError
              => \A old \in ns.before :
                    old.id = ns.arg.id => \E r \in ns.store : r.id = old.id /\ r.archived
        /\ ns.op = "PermanentlyDelete" /\ ~ns.result.isError
              => \A r \in ns.store : r.id # ns.arg.id

\* Retrieve of an archived node came back empty while its row exists
C32_Witness ==
    /\ ns.pc = "ready" /\ ns.op = "Retrieve" /\ ns.returned = {}
    /\ \E r \in ns.store : r.id = ns.arg.id /\ r.archived

\* a node that does not validate: its metatype is missing or belongs to another container,
\* the metatype's keys cannot be listed, or its properties do not match the keys
DoesNotValidate(n) ==
    \/ MetatypeRetrieve(n.metatype_id).isError
    \/ MetatypeRetrieve(n.metatype_id).container_id # NodeContainer
    \/ MetatypeKeyList(n.metatype_id).isError
    \/ n.properties = "bad"

\* C35: CreateOrUpdate on a batch with a node that does not validate returns a failure,
\* hands no statement to the database and leaves the table as it was; on a batch whose
\* nodes all validate it hands one statement per node to one transaction, which changes
\* the table by all of them or, when it fails, not at all.
C35_BatchAllOrNothing ==
    ns.pc = "ready" /\ ns.op = "CreateOrUpdate" =>
        IF \E i \in 1..Len(ns.input) : DoesNotValidate(ns.input[i])
        THEN ns.result.isError /\ ns.ran = <<>> /\ ns.store = ns.before
        ELSE /\ Len(ns.ran) = Len(ns.input)
             /\ ns.result.isError => ns.store = ns.before
             /\ ~ns.result.isError => ns.store = ExecuteAll(ns.before, ns.ran).store

\* a batch whose first node validates and whose second does not was refused
C35_Witness ==
    /\ ns.pc = "ready" /\ ns.op = "CreateOrUpdate" /\ Len(ns.input) = 2
    /\ ~DoesNotValidate(ns.input[1]) /\ DoesNotValidate(ns.input[2])
    /\ ns.result.isError /\ ns.store = ns.before

\* both functions on the batch of the last call
C40_CreateOrUpdate == CreateOrUpdateQueries(NodeContainer, NodeGraph, ns.input, ns.nextID - Len(ns.input))

C40_CreateOrUpdateStatement ==
    CreateOrUpdateStatementQueries(NodeContainer, NodeGraph, ns.input, ns.nextID - Len(ns.input))

\* C40: for the same container, graph and batch CreateOrUpdate (with the database up) fails
\* exactly when CreateOrUpdateStatement fails, and the statements the one runs are the
\* statements the other returns.
C40_SameOutcomeSameStatements ==
    ns.pc = "ready" =>
        /\ ns.op = "CreateOrUpdate" /\ ns.db
              => /\ ns.result.isError = C40_CreateOrUpdateStatement.isError
                 /\ ns.ran = C40_CreateOrUpdateStatement.queries
        /\ ns.op = "CreateOrUpdateStatement"
              => /\ ns.result.isError = C40_CreateOrUpdate.isError
                 /\ ns.statements = C40_CreateOrUpdate.queries

\* what does hold: on batches whose metatypes all have keys and whose nodes all carry
\* their metatype_name the two agree
C40_AgreeOnKeyedNamedNodes ==
    ns.pc = "ready" /\ ns.op \in {"CreateOrUpdate", "CreateOrUpdateStatement"}
    /\ (\A i \in 1..Len(ns.input) :
           /\ ns.input[i].metatype_name # ""
           /\ MetatypeKeyList(ns.input[i].metatype_id).length > 0)
        => /\ C40_CreateOrUpdate.isError = C40_CreateOrUpdateStatement.isError
           /\ C40_CreateOrUpdate.queries = C40_CreateOrUpdateStatement.queries

\* C34: a _record.original_id filter, given as a string or as a number, adds the predicate
\* original_data_id <operator> <value> to the query, and the resolver goes on to its
\* repository calls: it is not rejected at the filter.
C34_OriginalIDAnyJSON ==
    (res_pc \notin {"idle", "start"} /\ res_input._record.present /\ res_input._record.original_id # NoFilter) =>
        /\ On(res_repo, "original_data_id") = <<Predicate("original_data_id", EqOperator, <<"5">>)>>
        /\ res_promise = "rejected" => RepositoryCallFailed

\* the same for an original_id given as a string
C34_OriginalIDString ==
    (/\ res_pc \notin {"idle", "start"} /\ res_input._record.present
     /\ res_input._record.original_id # NoFilter /\ res_input._record.original_id_type = "string") =>
        /\ On(res_repo, "original_data_id") = <<Predicate("original_data_id", EqOperator, <<"5">>)>>
        /\ res_promise = "rejected" => RepositoryCallFailed

\* the workflow of mapping i has ended: it resolved, or one of its awaited calls threw
WorkflowEnded(i) == im.wf[i].pc \in {"done", "rejected"}

\* C36: a workflow of importToDataSource in which an awaited step (prepareForImport,
\* backfillIDs or save) throws still settles its promise, with a failure Result for its
\* mapping, so that once every workflow has ended every promise handed to Promise.all has
\* resolved and the call returns the list.
C36_ThrowStillReturns ==
    im.pc = "running" =>
        /\ \A i \in 1..Len(im.wf) :
              im.wf[i].pc = "rejected" => im.results[i].set /\ im.results[i].isError
        /\ (\A i \in 1..Len(im.wf) : WorkflowEnded(i))
              => \A i \in 1..Len(im.wf) : im.results[i].set

\* the same for the workflows whose steps all return
C36_ReturningStepsResolve ==
    im.pc = "running" =>
        \A i \in 1..Len(im.wf) : im.wf[i].pc = "done" => im.results[i].set

\* the calls of the mapper that end a transaction, in the order save made them
TransactionEnds ==
    SelectSeq(sv.log, LAMBDA e : e.op \in {"completeTransaction", "rollbackTransaction"})

\* C37: with a transaction passed in by the caller, save and saveTransformations call
\* neither completeTransaction nor rollbackTransaction on it, on any path.
C37_CallerTransactionLeftAlone ==
    (sv.pc # "idle" /\ sv.given) => TransactionEnds = <<>>

\* what does hold: saveTransformations called on its own leaves a transaction passed in
\* alone, and the create path of save never commits one
C37_GuardedPaths ==
    (sv.pc # "idle" /\ sv.given) =>
        /\ sv.call = "saveTransformations" => TransactionEnds = <<>>
        /\ sv.path = "create" => \A i \in 1..Len(TransactionEnds) : TransactionEnds[i].op = "rollbackTransaction"

\* C33: nothing in the repository keeps two first-sight ingests of one shape apart: an
\* ingest whose findByShapeHash missed and whose transaction started reaches the mapper's
\* CreateOrUpdate whatever the other ingest has done, and whether one mapping or two exist
\* once both have committed is decided by the store's conflict handling alone.
C33_UniquenessLeftToTheStore ==
    ig.pc = "running" =>
        /\ \A p \in Ingests :
              (ig.proc[p].missed /\ ig.proc[p].pc \in {"commit", "done"} /\ ~ig.proc[p].created)
                  => ig.proc[p].failed
        /\ ig.conflict = "update" => ig.rows <= 1
        /\ (ig.conflict = "insert" /\ \A p \in Ingests : ig.proc[p].committed) => ig.rows = 2

\* both ingests missed and stand at the mapper's CreateOrUpdate at the same time
C33_Witness ==
    /\ ig.pc = "running"
    /\ \A p \in Ingests : ig.proc[p].missed /\ ig.proc[p].pc = "create"

\* both ingests created and committed a mapping, and the store kept both
C33_TwoMappings ==
    /\ ig.pc = "running"
    /\ \A p \in Ingests : ig.proc[p].committed
    /\ ig.rows = 2

\* the write and the find have returned and no cache task is under way
RaceQuiet ==
    /\ rc.pc = "running"
    /\ rc.writer.pc = "done" /\ rc.reader.pc = "done"
    /\ rc.del \notin CacheKeys /\ rc.set \notin CacheKeys

\* C38: once the write (save with id, or delete) and the concurrent find have returned and
\* their cache tasks have run, each cache entry of the mapping is absent or holds the
\* persisted version, and is absent when the mapping was deleted.
C38_NoStaleCacheEntry ==
    RaceQuiet =>
        \A k \in CacheKeys : rc.cache[k] = "none" \/ (rc.db # "gone" /\ rc.cache[k] = rc.db)

\* a stale entry without any failed cache call: the find read before the write and set the
\* cache after deleteCached had run
C38_StaleByRaceAlone ==
    /\ RaceQuiet /\ rc.failures = 0 /\ ~rc.writer.isError
    /\ \E k \in CacheKeys : rc.cache[k] = "v0"

AllReturned == ca.pc = "running" /\ \A i \in ApprovalCalls : ca.calls[i].pc = "done"

\* C39: once the concurrent approveChangelist and revokeApproval calls have all returned,
\* the changelist's status is 'approved' exactly if it has at least one approval record.
C39_StatusAgreesWithApprovals ==
    AllReturned => (ca.status = "approved" <=> ca.approvals # {})

\* status and approval records disagree after an approve and a revoke, without a failed
\* mapper call and without a setStatus call in between
C39_DisagreeByInterleavingAlone ==
    /\ AllReturned /\ ca.direct = 0
    /\ \A i \in ApprovalCalls : ~ca.calls[i].failed
    /\ ~(ca.status = "approved" <=> ca.approvals # {})
====
